---------------------------- MODULE Spec2Model ----------------------------
(***************************************************************************)
(* A model of github.com/gyepisam/mcf: the password codec (package          *)
(* password), the generic adapter (package bridge), the parameter sets of   *)
(* scrypt and pbkdf2, the bcrypt adapter and the registry / facade of       *)
(* package mcf.                                                             *)
(*                                                                         *)
(* Byte strings are sequences.  Text (identifiers, parameter strings and    *)
(* the encoded password) is a sequence of one-character strings; binary     *)
(* data (salt, key) is a sequence of numbers in 0..255.                     *)
(***************************************************************************)
EXTENDS Integers, Sequences, FiniteSets, TLC

VARIABLES
    encoders,         \* mcf.encoders: slot -> instance (NoInstance when nil)
    defaultEncoding,  \* mcf.defaultEncoding
    imports,          \* the encoder packages linked into the program
    store,            \* the application's stored passwords, with how each was made
    last,             \* the outcome of the last call
    calls             \* the calls under way in goroutines: position and locals of each

vars == <<encoders, defaultEncoding, imports, store, last, calls>>

-----------------------------------------------------------------------------
(* Helpers on sequences.                                                    *)

Range(s) == {s[i] : i \in 1..Len(s)}

Min(S) == CHOOSE m \in S : \A n \in S : m <= n

RECURSIVE Sum(_)
Sum(s) == IF Len(s) = 0 THEN 0 ELSE s[1] + Sum(Tail(s))

IsPrefix(p, s) == Len(p) <= Len(s) /\ SubSeq(s, 1, Len(p)) = p

\* the one element of a one-element set: Only({e : x \in {v}}) is e with x
\* standing for the value of v
Only(S) == CHOOSE x \in S : TRUE

\* no goroutine but the main one: the calls are made one after the other
NoCalls == <<>>

-----------------------------------------------------------------------------
(* Package password: the Modular Crypt Format codec.                        *)

separator == "$"

fieldCount == 4

HexDigits == <<"0","1","2","3","4","5","6","7","8","9","a","b","c","d","e","f">>

UpperHex == <<"A","B","C","D","E","F">>

\* encoding/hex fromHexChar: the value of a hex digit of either case
HexValue ==
    [c \in Range(HexDigits) \cup Range(UpperHex) |->
        IF \E i \in 1..16 : HexDigits[i] = c
        THEN (CHOOSE i \in 1..16 : HexDigits[i] = c) - 1
        ELSE (CHOOSE i \in 1..6 : UpperHex[i] = c) + 9]

\* -1 for a character that is no hex digit
fromHexChar(c) == IF c \in DOMAIN HexValue THEN HexValue[c] ELSE -1

B64Alphabet ==
    <<"A","B","C","D","E","F","G","H","I","J","K","L","M","N","O","P",
      "Q","R","S","T","U","V","W","X","Y","Z","a","b","c","d","e","f",
      "g","h","i","j","k","l","m","n","o","p","q","r","s","t","u","v",
      "w","x","y","z","0","1","2","3","4","5","6","7","8","9","+","/">>

\* the value of a standard base64 character
B64Value == [c \in Range(B64Alphabet) |-> (CHOOSE i \in 1..64 : B64Alphabet[i] = c) - 1]

\* -1 for a character outside the alphabet
fromB64Char(c) == IF c \in DOMAIN B64Value THEN B64Value[c] ELSE -1

\* a hex encoding without the leading zero of a byte below 16
EncodeHexUnpadded(in) ==
    IF Len(in) = 0 THEN <<>>
    ELSE (IF in[1] < 16 THEN <<HexDigits[in[1] + 1]>>
          ELSE <<HexDigits[(in[1] \div 16) + 1], HexDigits[(in[1] % 16) + 1]>>)
         \o Only({[i \in 1..(2 * Len(x)) |->
                     IF i % 2 = 1 THEN HexDigits[(x[(i + 1) \div 2] \div 16) + 1]
                     ELSE HexDigits[(x[(i + 1) \div 2] % 16) + 1]] : x \in {Tail(in)}})

\* EncodeHex: two lower-case hex digits per byte
EncodeHex(in) ==
    Only({[i \in 1..(2 * Len(x)) |->
              IF i % 2 = 1 THEN HexDigits[(x[(i + 1) \div 2] \div 16) + 1]
              ELSE HexDigits[(x[(i + 1) \div 2] % 16) + 1]] : x \in {in}})

\* EncodeBase64: base64.StdEncoding, four characters per three bytes, padded
EncodeBase64(in) ==
    Only({LET n == Len(x)
              at(k) == IF k <= n THEN x[k] ELSE 0
          IN  [i \in 1..(4 * ((n + 2) \div 3)) |->
                  LET g  == (i - 1) \div 4
                      k  == (i - 1) % 4
                      b1 == at(3 * g + 1)
                      b2 == at(3 * g + 2)
                      b3 == at(3 * g + 3)
                  IN  CASE k = 0 -> B64Alphabet[(b1 \div 4) + 1]
                        [] k = 1 -> B64Alphabet[((b1 % 4) * 16 + (b2 \div 16)) + 1]
                        [] k = 2 -> IF 3 * g + 2 > n THEN "="
                                    ELSE B64Alphabet[((b2 % 16) * 4 + (b3 \div 64)) + 1]
                        [] k = 3 -> IF 3 * g + 3 > n THEN "="
                                    ELSE B64Alphabet[(b3 % 64) + 1]] : x \in {in}})

\* encoding/hex Decode: pairs of hex digits; an odd length or a foreign
\* character is an error, and dst holds the bytes decoded before it
HexDecode(src) ==
    Only({[err |-> IF bad # {} THEN "hex.InvalidByteError"
                   ELSE IF Len(src) % 2 = 1 THEN "hex.ErrLength"
                   ELSE "nil",
           dst |-> [i \in 1..(IF bad = {} THEN Len(src) \div 2 ELSE Min(bad) - 1) |->
                       16 * fromHexChar(src[2 * i - 1]) + fromHexChar(src[2 * i])]] :
          bad \in {{k \in 1..(Len(src) \div 2) :
                       fromHexChar(src[2 * k - 1]) < 0 \/ fromHexChar(src[2 * k]) < 0}}})

\* base64.StdEncoding.Decode: quanta of four characters, padding only at the
\* end of the last quantum; anything else is a CorruptInputError
B64Decode(src) ==
    LET quanta == Len(src) \div 4
        v(i)   == fromB64Char(src[i])
        full(q) == \A k \in 1..4 : v(4 * (q - 1) + k) >= 0
        pad2(q) == /\ v(4 * q - 3) >= 0 /\ v(4 * q - 2) >= 0
                   /\ src[4 * q - 1] = "=" /\ src[4 * q] = "="
        pad1(q) == /\ v(4 * q - 3) >= 0 /\ v(4 * q - 2) >= 0 /\ v(4 * q - 1) >= 0
                   /\ src[4 * q] = "="
        good(q) == full(q) \/ (q = quanta /\ (pad1(q) \/ pad2(q)))
        byte(i) ==
            CASE (i - 1) % 3 = 0 ->
                    v(4 * ((i - 1) \div 3) + 1) * 4 + (v(4 * ((i - 1) \div 3) + 2) \div 16)
              [] (i - 1) % 3 = 1 ->
                    (v(4 * ((i - 1) \div 3) + 2) % 16) * 16 + (v(4 * ((i - 1) \div 3) + 3) \div 4)
              [] (i - 1) % 3 = 2 ->
                    (v(4 * ((i - 1) \div 3) + 3) % 4) * 64 + v(4 * ((i - 1) \div 3) + 4)
    IN  Only({[err |-> IF bad # {} \/ Len(src) % 4 # 0
                       THEN "base64.CorruptInputError" ELSE "nil",
               dst |-> [i \in 1..(IF bad = {} /\ quanta = 0 THEN 0
                                  ELSE IF bad = {} /\ full(quanta) THEN 3 * quanta
                                  ELSE IF bad = {} /\ pad1(quanta) THEN 3 * quanta - 1
                                  ELSE IF bad = {} THEN 3 * quanta - 2
                                  ELSE 3 * (Min(bad) - 1)) |-> byte(i)]] :
              bad \in {{q \in 1..quanta : ~good(q)}}})

\* the characters that tell base64 from hex
b64NotHex ==
    {"G","H","I","J","K","L","M","N","O","P","Q","R","S","T","U","V","W","X","Y","Z",
     "g","h","i","j","k","l","m","n","o","p","q","r","s","t","u","v","w","x","y","z",
     "+","/","-","_"}

\* decode: hex when no character of the field is in b64NotHex, base64 otherwise
decode(encoded) ==
    IF \A i \in 1..Len(encoded) : encoded[i] \notin b64NotHex
    THEN HexDecode(encoded)
    ELSE B64Decode(encoded)

\* bytes.Split(s, separator)
RECURSIVE Split(_)
Split(s) ==
    IF \A i \in 1..Len(s) : s[i] # separator
    THEN <<s>>
    ELSE Only({<<SubSeq(s, 1, i - 1)>> \o Split(SubSeq(s, i + 1, Len(s))) :
                  i \in {Min({j \in 1..Len(s) : s[j] = separator})}})

\* password.New(name)
New(name) == [Name |-> name, Params |-> <<>>, Salt |-> <<>>, Key |-> <<>>]

\* Parse without the comparison of the name field to p.Name
ParseAnyName(p, encoded) ==
    IF Len(encoded) = 0 THEN [err |-> "empty password", p |-> p]
    ELSE IF encoded[1] # separator
    THEN [err |-> "password does not begin with separator", p |-> p]
    ELSE Only({
        IF Len(parts) < fieldCount
        THEN [err |-> "password has too few fields", p |-> p]
        ELSE IF Len(parts) > fieldCount
        THEN [err |-> "password has too many fields", p |-> p]
        ELSE Only({
            IF salt.err # "nil"
            THEN [err |-> salt.err,
                  p |-> [p EXCEPT !.Params = parts[2], !.Salt = salt.dst]]
            ELSE [err |-> key.err,
                  p |-> [p EXCEPT !.Params = parts[2], !.Salt = salt.dst,
                                  !.Key = key.dst]] :
            salt \in {decode(parts[3])}, key \in {decode(parts[4])}}) :
        parts \in {Split(SubSeq(encoded, 2, Len(encoded)))}})

\* (*Passwd).Parse with the default Decoder: the error and the Passwd it leaves
Parse(p, encoded) ==
    IF Len(encoded) = 0 THEN [err |-> "empty password", p |-> p]
    ELSE IF encoded[1] # separator
    THEN [err |-> "password does not begin with separator", p |-> p]
    ELSE Only({
        IF Len(parts) < fieldCount
        THEN [err |-> "password has too few fields", p |-> p]
        ELSE IF Len(parts) > fieldCount
        THEN [err |-> "password has too many fields", p |-> p]
        ELSE IF parts[1] # p.Name
        THEN [err |-> "unexpected password type", p |-> p]
        ELSE Only({
            IF salt.err # "nil"
            THEN [err |-> salt.err,
                  p |-> [p EXCEPT !.Params = parts[2], !.Salt = salt.dst]]
            ELSE [err |-> key.err,
                  p |-> [p EXCEPT !.Params = parts[2], !.Salt = salt.dst,
                                  !.Key = key.dst]] :
            salt \in {decode(parts[3])}, key \in {decode(parts[4])}}) :
        parts \in {Split(SubSeq(encoded, 2, Len(encoded)))}})

\* (*Passwd).Bytes with Encoder enc: separator before each of the four fields
BytesWith(p, hexEncoder) ==
    <<separator>> \o p.Name \o <<separator>> \o p.Params \o <<separator>> \o
    (IF hexEncoder THEN EncodeHex(p.Salt) ELSE EncodeBase64(p.Salt)) \o <<separator>> \o
    (IF hexEncoder THEN EncodeHex(p.Key) ELSE EncodeBase64(p.Key))

\* (*Passwd).Bytes with the default Encoder, EncodeBase64
Bytes(p) == BytesWith(p, FALSE)

-----------------------------------------------------------------------------
(* fmt.Sprintf / fmt.Sscanf for the parameter strings.                      *)

Digits == <<"0","1","2","3","4","5","6","7","8","9">>

DigitVal(c) ==
    IF \E i \in 1..10 : Digits[i] = c
    THEN (CHOOSE i \in 1..10 : Digits[i] = c) - 1
    ELSE -1

RECURSIVE DecNat(_)
DecNat(n) == IF n < 10 THEN <<Digits[n + 1]>>
             ELSE DecNat(n \div 10) \o <<Digits[(n % 10) + 1]>>

\* Sprintf("%d", n)
Dec(n) == IF n < 0 THEN <<"-">> \o DecNat(-n) ELSE DecNat(n)

RECURSIVE DigitsValue(_, _)
DigitsValue(s, acc) ==
    IF Len(s) = 0 THEN acc ELSE DigitsValue(Tail(s), 10 * acc + DigitVal(s[1]))

\* the %d verb of Sscanf at position pos: an optional sign, then digits
ScanInt(s, pos) ==
    LET signed == pos <= Len(s) /\ s[pos] \in {"+", "-"}
        from   == IF signed THEN pos + 1 ELSE pos
        stop   == IF \E j \in from..Len(s) : DigitVal(s[j]) < 0
                  THEN Min({j \in from..Len(s) : DigitVal(s[j]) < 0})
                  ELSE Len(s) + 1
        v      == DigitsValue(SubSeq(s, from, stop - 1), 0)
    IN  [ok  |-> stop > from,
         val |-> IF signed /\ s[pos] = "-" THEN -v ELSE v,
         pos |-> stop]

\* literal text of the format at position pos: the position after it, 0 on mismatch
ScanLit(s, pos, lit) ==
    IF pos + Len(lit) - 1 <= Len(s) /\ SubSeq(s, pos, pos + Len(lit) - 1) = lit
    THEN pos + Len(lit) ELSE 0

\* Sscanf over a format "lit1%dlit2%d...": the numbers read before the first
\* mismatch, and the position reached (0 after a mismatch)
RECURSIVE ScanInts(_, _, _)
ScanInts(s, pos, lits) ==
    IF Len(lits) = 0 THEN [vals |-> <<>>, pos |-> pos]
    ELSE Only({
        IF p1 = 0 THEN [vals |-> <<>>, pos |-> 0]
        ELSE Only({
            IF ~r.ok THEN [vals |-> <<>>, pos |-> 0]
            ELSE Only({[vals |-> <<r.val>> \o rest.vals, pos |-> rest.pos] :
                          rest \in {ScanInts(s, r.pos, Tail(lits))}}) :
            r \in {ScanInt(s, p1)}}) :
        p1 \in {ScanLit(s, pos, lits[1])}})

-----------------------------------------------------------------------------
(* Package scrypt: the parameter set.                                       *)

DefaultKeyLen == 128
DefaultSaltLen == 16
DefaultLgN == 16
DefaultR == 10
DefaultP == 2

\* scrypt.GetConfig
ScryptGetConfig ==
    [KeyLen |-> DefaultKeyLen, SaltLen |-> DefaultSaltLen,
     LgN |-> DefaultLgN, R |-> DefaultR, P |-> DefaultP]

\* (*Config).validate: every one of KeyLen, LgN, R, P is positive
ScryptValidate(c) ==
    IF c.KeyLen <= 0 \/ c.LgN <= 0 \/ c.R <= 0 \/ c.P <= 0
    THEN "ErrInvalidParameter" ELSE "nil"

ScryptFormat ==
    << <<"K","e","y","L","e","n","=">>, <<",","L","g","N","=">>,
       <<",","R","=">>, <<",","P","=">> >>

\* (*Config).Params
ScryptParams(c) ==
    ScryptFormat[1] \o Dec(c.KeyLen) \o ScryptFormat[2] \o Dec(c.LgN) \o
    ScryptFormat[3] \o Dec(c.R) \o ScryptFormat[4] \o Dec(c.P)

\* (*Config).SetParams: Sscanf stores what it has read before it fails
ScryptSetParams(c, s) ==
    Only({LET n  == Len(r.vals)
              c1 == [c EXCEPT !.KeyLen = IF n >= 1 THEN r.vals[1] ELSE @,
                              !.LgN    = IF n >= 2 THEN r.vals[2] ELSE @,
                              !.R      = IF n >= 3 THEN r.vals[3] ELSE @,
                              !.P      = IF n >= 4 THEN r.vals[4] ELSE @]
          IN  IF r.pos = 0 THEN [err |-> "fmt.Sscanf", c |-> c1]
              ELSE [err |-> ScryptValidate(c1), c |-> c1] :
          r \in {ScanInts(s, 1, ScryptFormat)}})

\* the digest primitive, opaque to this package: a fixed function of the
\* password, the salt and the cost parameters, keyLen bytes long
Digest(password, salt, cost, keyLen) ==
    IF (Sum(password) + Sum(salt) + Len(salt) + cost) % 2 = 0
    THEN [i \in 1..keyLen |-> 0]
    ELSE [i \in 1..keyLen |-> 255]

\* (*Config).Key: scrypt.Key(plaintext, salt, 1<<LgN, R, P, KeyLen), which
\* refuses an N that is not above 1
ScryptKey(c, plaintext, salt) ==
    IF c.LgN <= 0 THEN [err |-> "scrypt: N must be > 1 and a power of 2", key |-> <<>>]
    ELSE [err |-> "nil", key |-> Digest(plaintext, salt, c.LgN + c.R + c.P, c.KeyLen)]

\* (*Config).AtLeast: no one of LgN, R, P, KeyLen of c is below current's
ScryptAtLeast(c, current) ==
    ~(c.LgN < current.LgN \/ c.R < current.R \/ c.P < current.P
        \/ c.KeyLen < current.KeyLen)

-----------------------------------------------------------------------------
(* Package pbkdf2: the parameter set.                                       *)

SHA1 == <<"S","H","A","1">>
SHA224 == <<"S","H","A","2","2","4">>
SHA256 == <<"S","H","A","2","5","6">>
SHA384 == <<"S","H","A","3","8","4">>
SHA512 == <<"S","H","A","5","1","2">>

\* the hashes map: the output size of each known hash
hashes == {SHA1, SHA224, SHA256, SHA384, SHA512}

\* Hash.Size
HashSize(h) ==
    CASE h = SHA1 -> 20 [] h = SHA224 -> 28 [] h = SHA256 -> 32
      [] h = SHA384 -> 48 [] h = SHA512 -> 64

DefaultIterations == 2000

DefaultPrf == SHA1

\* pbkdf2.GetConfig
Pbkdf2GetConfig ==
    [Hash |-> DefaultPrf, Iterations |-> DefaultIterations,
     KeyLen |-> HashSize(DefaultPrf), SaltLen |-> DefaultSaltLen]

\* (*Config).validate: the hash is a known one
Pbkdf2Validate(c) == IF c.Hash \notin hashes THEN "ErrInvalidHash" ELSE "nil"

Pbkdf2Format ==
    << <<"k","e","y","l","e","n","=">>, <<",","i","t","e","r","a","t","i","o","n","s","=">>,
       <<",","h","m","a","c","=">> >>

\* (*Config).Params
Pbkdf2Params(c) ==
    Pbkdf2Format[1] \o Dec(c.KeyLen) \o Pbkdf2Format[2] \o Dec(c.Iterations) \o
    Pbkdf2Format[3] \o c.Hash

\* SetParams storing the two numbers in the order iterations, keylen
Pbkdf2SetParamsExchanged(c, s) ==
    Only({LET n  == Len(r.vals)
              p3 == IF r.pos = 0 THEN 0 ELSE ScanLit(s, r.pos, Pbkdf2Format[3])
              c1 == [c EXCEPT !.Iterations = IF n >= 1 THEN r.vals[1] ELSE @,
                              !.KeyLen     = IF n >= 2 THEN r.vals[2] ELSE @]
          IN  IF p3 = 0 \/ p3 > Len(s) THEN [err |-> "fmt.Sscanf", c |-> c1]
              ELSE [err |-> Pbkdf2Validate([c1 EXCEPT !.Hash = SubSeq(s, p3, Len(s))]),
                    c |-> [c1 EXCEPT !.Hash = SubSeq(s, p3, Len(s))]] :
          r \in {ScanInts(s, 1, SubSeq(Pbkdf2Format, 1, 2))}})

\* (*Config).SetParams: two numbers, then %s takes the rest of the text
Pbkdf2SetParams(c, s) ==
    Only({LET n  == Len(r.vals)
              p3 == IF r.pos = 0 THEN 0 ELSE ScanLit(s, r.pos, Pbkdf2Format[3])
              c1 == [c EXCEPT !.KeyLen     = IF n >= 1 THEN r.vals[1] ELSE @,
                              !.Iterations = IF n >= 2 THEN r.vals[2] ELSE @]
          IN  IF p3 = 0 \/ p3 > Len(s) THEN [err |-> "fmt.Sscanf", c |-> c1]
              ELSE [err |-> Pbkdf2Validate([c1 EXCEPT !.Hash = SubSeq(s, p3, Len(s))]),
                    c |-> [c1 EXCEPT !.Hash = SubSeq(s, p3, Len(s))]] :
          r \in {ScanInts(s, 1, SubSeq(Pbkdf2Format, 1, 2))}})

\* (*Config).Key: pbkdf2.Key(password, salt, Iterations, KeyLen, hashes[Hash])
Pbkdf2Key(c, plaintext, salt) ==
    [err |-> "nil",
     key |-> Digest(plaintext, salt, c.Iterations + HashSize(c.Hash), c.KeyLen)]

\* AtLeast refusing only a configuration that is below current's in every field
Pbkdf2AtLeastInOne(c, current) ==
    ~(c.Iterations < current.Iterations /\ c.KeyLen < current.KeyLen
        /\ c.SaltLen < current.SaltLen)

\* AtLeast comparing the output sizes of the hashes as well
Pbkdf2AtLeastByHash(c, current) ==
    ~(c.Iterations < current.Iterations \/ c.KeyLen < current.KeyLen
        \/ c.SaltLen < current.SaltLen \/ HashSize(c.Hash) < HashSize(current.Hash))

\* (*Config).AtLeast: no one of Iterations, KeyLen, SaltLen of c is below current's
Pbkdf2AtLeast(c, current) ==
    ~(c.Iterations < current.Iterations \/ c.KeyLen < current.KeyLen
        \/ c.SaltLen < current.SaltLen)

-----------------------------------------------------------------------------
(* Package mcf: Salt.                                                       *)

\* what a source of salt hands back for a request of size bytes: rand.Reader
\* (miner FALSE) fills the request, a SaltMiner (miner TRUE) returns what it likes
SaltReads(size) ==
    {[miner |-> FALSE, bytes |-> [i \in 1..size |-> b], err |-> "nil"] : b \in {0, 255}}
        \cup {[miner |-> TRUE, bytes |-> <<0>>, err |-> "nil"]}

\* Salt refusing only the reads that are shorter than size
SaltAtLeastSize(size, read) ==
    IF ~read.miner THEN [salt |-> read.bytes, err |-> "nil"]
    ELSE IF read.err # "nil" THEN [salt |-> read.bytes, err |-> read.err]
    ELSE IF Len(read.bytes) < size THEN [salt |-> read.bytes, err |-> "Short salt read"]
    ELSE [salt |-> read.bytes, err |-> "nil"]

\* mcf.Salt(size, minerFn): the miner's error is returned as it is, and the
\* miner's bytes are checked for their length
Salt(size, read) ==
    IF ~read.miner THEN [salt |-> read.bytes, err |-> "nil"]
    ELSE IF read.err # "nil" THEN [salt |-> read.bytes, err |-> read.err]
    ELSE IF Len(read.bytes) # size THEN [salt |-> read.bytes, err |-> "Short salt read"]
    ELSE [salt |-> read.bytes, err |-> "nil"]

-----------------------------------------------------------------------------
(* Package bridge: an encoder.Encoder made of a name and an Implementer.    *)
(* A bridge encoder is [type |-> "bridge", name, alg, config]: implementer() *)
(* returns a fresh copy of config, a parameter set of package alg.          *)

ImpParams(alg, c) == IF alg = "scrypt" THEN ScryptParams(c) ELSE Pbkdf2Params(c)

ImpSetParams(alg, c, s) ==
    IF alg = "scrypt" THEN ScryptSetParams(c, s) ELSE Pbkdf2SetParams(c, s)

ImpKey(alg, c, plaintext, salt) ==
    IF alg = "scrypt" THEN ScryptKey(c, plaintext, salt) ELSE Pbkdf2Key(c, plaintext, salt)

\* AtLeast with its receiver and its argument exchanged
ImpAtLeastExchanged(alg, c, current) ==
    IF alg = "scrypt" THEN ScryptAtLeast(current, c) ELSE Pbkdf2AtLeast(current, c)

ImpAtLeast(alg, c, current) ==
    IF alg = "scrypt" THEN ScryptAtLeast(c, current) ELSE Pbkdf2AtLeast(c, current)

\* bridge.New
BridgeNew(name, alg, config) ==
    [type |-> "bridge", name |-> name, alg |-> alg, config |-> config]

\* (*Encoder).Create
BridgeCreate(enc, plaintext, read) ==
    Only({
        IF salt.err # "nil" THEN [encoded |-> <<>>, err |-> salt.err]
        ELSE Only({
            IF key.err # "nil" THEN [encoded |-> <<>>, err |-> key.err]
            ELSE [encoded |-> Bytes([Name |-> enc.name, Params |-> params,
                                     Salt |-> salt.salt, Key |-> key.key]),
                  err |-> "nil"] :
            key \in {ImpKey(enc.alg, enc.config, plaintext, salt.salt)}}) :
        params \in {ImpParams(enc.alg, enc.config)},
        salt \in {Salt(enc.config.SaltLen, read)}})

\* (*Encoder).Verify
BridgeVerify(enc, plaintext, encoded) ==
    Only({
        IF parsed.err # "nil" THEN [isValid |-> FALSE, err |-> parsed.err]
        ELSE Only({
            IF set.err # "nil" THEN [isValid |-> FALSE, err |-> set.err]
            ELSE Only({
                IF test.err # "nil" THEN [isValid |-> FALSE, err |-> test.err]
                ELSE [isValid |-> parsed.p.Key = test.key, err |-> "nil"] :
                test \in {ImpKey(enc.alg, set.c, plaintext, parsed.p.Salt)}}) :
            set \in {ImpSetParams(enc.alg, enc.config, parsed.p.Params)}}) :
        parsed \in {Parse(New(enc.name), encoded)}})

\* (*Encoder).IsCurrent
BridgeIsCurrent(enc, encoded) ==
    Only({
        IF parsed.err # "nil" THEN [isCurrent |-> FALSE, err |-> parsed.err]
        ELSE Only({
            IF set.err # "nil" THEN [isCurrent |-> FALSE, err |-> set.err]
            ELSE [isCurrent |-> ImpAtLeast(enc.alg, set.c, enc.config), err |-> "nil"] :
            set \in {ImpSetParams(enc.alg, enc.config, parsed.p.Params)}}) :
        parsed \in {Parse(New(enc.name), encoded)}})

-----------------------------------------------------------------------------
(* Package bcrypt: the adapter [type |-> "bcrypt", Cost] over the bcrypt    *)
(* library.  The library's hash is "$2a$", two digits of cost, "$", the      *)
(* salt and the digest; the model keeps that layout with a short salt and   *)
(* digest.                                                                  *)

DefaultCost == 12
MinCost == 4
MaxCost == 31

BcryptSaltLen == 3

BcryptPrefix == <<"$","2","a","$">>

BcryptNew(cost) == [type |-> "bcrypt", Cost |-> cost]

\* bcrypt.GenerateFromPassword(password, cost) with the salt it drew
GenerateFromPassword(password, cost, salt) ==
    IF cost < MinCost \/ cost > MaxCost
    THEN [encoded |-> <<>>, err |-> "bcrypt.InvalidCostError"]
    ELSE [encoded |-> BcryptPrefix \o (IF cost < 10 THEN <<"0">> ELSE <<>>) \o Dec(cost)
                        \o <<"$">> \o EncodeBase64(salt)
                        \o EncodeBase64(Digest(password, salt, cost, BcryptSaltLen)),
          err |-> "nil"]

\* the library's parse of a hash: its cost and salt, or the error
BcryptFromHash(encoded) ==
    Only({
        IF Len(encoded) < 7 + 2 * saltChars
        THEN [err |-> "bcrypt.ErrHashTooShort", cost |-> 0, salt |-> <<>>, hash |-> <<>>]
        ELSE IF SubSeq(encoded, 1, 4) # BcryptPrefix \/ encoded[7] # "$"
        THEN [err |-> "bcrypt.InvalidHashPrefixError", cost |-> 0, salt |-> <<>>,
              hash |-> <<>>]
        ELSE IF ~cost.ok \/ cost.pos # 7 \/ cost.val < MinCost \/ cost.val > MaxCost
        THEN [err |-> "bcrypt.InvalidCostError", cost |-> 0, salt |-> <<>>, hash |-> <<>>]
        ELSE [err |-> "nil", cost |-> cost.val,
              salt |-> B64Decode(SubSeq(encoded, 8, 7 + saltChars)).dst,
              hash |-> SubSeq(encoded, 8 + saltChars, Len(encoded))] :
        saltChars \in {4 * ((BcryptSaltLen + 2) \div 3)},
        cost \in {ScanInt(encoded, 5)}})

\* (*config).Create
BcryptCreate(c, plaintext, read) == GenerateFromPassword(plaintext, c.Cost, read.bytes)

\* (*config).Verify: bcrypt.CompareHashAndPassword, a mismatch is not an error
BcryptVerify(c, plaintext, encoded) ==
    Only({
        IF h.err # "nil" THEN [isValid |-> FALSE, err |-> h.err]
        ELSE [isValid |-> GenerateFromPassword(plaintext, h.cost, h.salt).encoded = encoded,
              err |-> "nil"] :
        h \in {BcryptFromHash(encoded)}})

\* (*config).IsCurrent: bcrypt.Cost(encoded) >= c.Cost
BcryptIsCurrent(c, encoded) ==
    Only({
        IF h.err # "nil" THEN [isCurrent |-> FALSE, err |-> h.err]
        ELSE [isCurrent |-> h.cost >= c.Cost, err |-> "nil"] :
        h \in {BcryptFromHash(encoded)}})

-----------------------------------------------------------------------------
(* Package encoder: the Encoder interface, by dynamic type.                 *)

EncId(enc) == IF enc.type = "bcrypt" THEN <<"2","a">> ELSE enc.name

\* the size of the salt the encoder asks its source for
EncSaltLen(enc) == IF enc.type = "bcrypt" THEN BcryptSaltLen ELSE enc.config.SaltLen

EncCreate(enc, plaintext, read) ==
    IF enc.type = "bcrypt" THEN BcryptCreate(enc, plaintext, read)
    ELSE BridgeCreate(enc, plaintext, read)

EncVerify(enc, plaintext, encoded) ==
    IF enc.type = "bcrypt" THEN BcryptVerify(enc, plaintext, encoded)
    ELSE BridgeVerify(enc, plaintext, encoded)

EncIsCurrent(enc, encoded) ==
    IF enc.type = "bcrypt" THEN BcryptIsCurrent(enc, encoded)
    ELSE BridgeIsCurrent(enc, encoded)

-----------------------------------------------------------------------------
(* Package mcf: the registry and the facade.                                *)

BCRYPT == 0
SCRYPT == 1
PBKDF2 == 2
CRYPT == 3
maxEncoding == 4

\* a nil slot of encoders
NoInstance == [id |-> <<>>, enc |-> [type |-> "nil"]]

IsNil(inst) == inst.enc.type = "nil"

\* Encoding.IsValid
IsValid(e) == e >= 0 /\ e < maxEncoding

\* Register emptying the slot of an encoder whose id is empty
RegisterClearing(encs, def, encoding, encoder) ==
    IF ~IsValid(encoding)
    THEN [err |-> "ErrInvalidEncoding", encoders |-> encs, defaultEncoding |-> def]
    ELSE IF Len(EncId(encoder)) = 0
    THEN [err |-> "empty id",
          encoders |-> [encs EXCEPT ![encoding] = [id |-> <<>>, enc |-> [type |-> "nil"]]],
          defaultEncoding |-> def]
    ELSE [err |-> "nil",
          encoders |-> [encs EXCEPT ![encoding] = [id |-> EncId(encoder), enc |-> encoder]],
          defaultEncoding |-> IF ~IsValid(def) THEN encoding ELSE def]

\* Register choosing the default before it has looked at the id
RegisterDefaultFirst(encs, def, encoding, encoder) ==
    IF ~IsValid(encoding)
    THEN [err |-> "ErrInvalidEncoding", encoders |-> encs, defaultEncoding |-> def]
    ELSE IF Len(EncId(encoder)) = 0
    THEN [err |-> "empty id", encoders |-> encs,
          defaultEncoding |-> IF ~IsValid(def) THEN encoding ELSE def]
    ELSE [err |-> "nil",
          encoders |-> [encs EXCEPT ![encoding] = [id |-> EncId(encoder), enc |-> encoder]],
          defaultEncoding |-> IF ~IsValid(def) THEN encoding ELSE def]

\* Register making every registered encoder the default, not only the first
RegisterTakingDefault(encs, def, encoding, encoder) ==
    IF ~IsValid(encoding)
    THEN [err |-> "ErrInvalidEncoding", encoders |-> encs, defaultEncoding |-> def]
    ELSE IF Len(EncId(encoder)) = 0
    THEN [err |-> "empty id", encoders |-> encs, defaultEncoding |-> def]
    ELSE [err |-> "nil",
          encoders |-> [encs EXCEPT ![encoding] = [id |-> EncId(encoder), enc |-> encoder]],
          defaultEncoding |-> encoding]

\* Register: the error, and encoders and defaultEncoding as it leaves them
Register(encs, def, encoding, encoder) ==
    IF ~IsValid(encoding)
    THEN [err |-> "ErrInvalidEncoding", encoders |-> encs, defaultEncoding |-> def]
    ELSE IF Len(EncId(encoder)) = 0
    THEN [err |-> "empty id", encoders |-> encs, defaultEncoding |-> def]
    ELSE [err |-> "nil",
          encoders |-> [encs EXCEPT ![encoding] = [id |-> EncId(encoder), enc |-> encoder]],
          defaultEncoding |-> IF ~IsValid(def) THEN encoding ELSE def]

\* findInstance going on after a match: the last slot whose id is a prefix
findLastInstance(encs, encoded) ==
    LET hits == {i \in 0..(maxEncoding - 1) :
                    /\ ~IsNil(encs[i])
                    /\ Len(encoded) > 0
                    /\ IsPrefix(encs[i].id, SubSeq(encoded, 2, Len(encoded)))}
    IN  IF hits = {} THEN maxEncoding ELSE CHOOSE m \in hits : \A n \in hits : m >= n

\* findInstance falling back on the first occupied slot when no id matches
findOrDefault(encs, encoded) ==
    LET hits == {i \in 0..(maxEncoding - 1) :
                    /\ ~IsNil(encs[i])
                    /\ Len(encoded) > 0
                    /\ IsPrefix(encs[i].id, SubSeq(encoded, 2, Len(encoded)))}
    IN  IF hits # {} THEN Min(hits)
        ELSE IF \E i \in 0..(maxEncoding - 1) : ~IsNil(encs[i])
        THEN Min({i \in 0..(maxEncoding - 1) : ~IsNil(encs[i])})
        ELSE maxEncoding

\* findInstance: the first slot, in ascending order, whose id is a prefix of
\* encoded[1:]; maxEncoding when there is none
findInstance(encs, encoded) ==
    LET hits == {i \in 0..(maxEncoding - 1) :
                    /\ ~IsNil(encs[i])
                    /\ Len(encoded) > 0
                    /\ IsPrefix(encs[i].id, SubSeq(encoded, 2, Len(encoded)))}
    IN  IF hits = {} THEN maxEncoding ELSE Min(hits)

\* mcf.Verify
Verify(encs, plaintext, encoded) ==
    Only({
        IF encoding = maxEncoding THEN [isValid |-> FALSE, err |-> "errNoEncoder"]
        ELSE EncVerify(encs[encoding].enc, plaintext, encoded) :
        encoding \in {findInstance(encs, encoded)}})

\* IsCurrent without the comparison to the default encoding
IsCurrentOfAdapter(encs, def, encoded) ==
    Only({
        IF encoding = maxEncoding THEN [isCurrent |-> FALSE, err |-> "errNoEncoder"]
        ELSE EncIsCurrent(encs[encoding].enc, encoded) :
        encoding \in {findInstance(encs, encoded)}})

\* mcf.IsCurrent: the adapter's answer, and only for the default encoding
IsCurrent(encs, def, encoded) ==
    Only({
        IF encoding = maxEncoding THEN [isCurrent |-> FALSE, err |-> "errNoEncoder"]
        ELSE Only({
            IF r.err = "nil" /\ r.isCurrent
            THEN [isCurrent |-> encoding = def, err |-> "nil"]
            ELSE r :
            r \in {EncIsCurrent(encs[encoding].enc, encoded)}}) :
        encoding \in {findInstance(encs, encoded)}})

\* Create by the first occupied slot, whatever the default is
CreateByFirst(encs, def, plaintext, read) ==
    IF ~IsValid(def) THEN [encoded |-> <<>>, err |-> "No encoders registered"]
    ELSE EncCreate(encs[Min({i \in 0..(maxEncoding - 1) : ~IsNil(encs[i])})].enc,
                   plaintext, read)

\* mcf.Create (Generate): the default encoder's Create
Create(encs, def, plaintext, read) ==
    IF ~IsValid(def) THEN [encoded |-> <<>>, err |-> "No encoders registered"]
    ELSE EncCreate(encs[def].enc, plaintext, read)

-----------------------------------------------------------------------------
(* The program: the packages' init functions, then calls of the public API. *)

NumPlaintexts == 2

\* the passwords users type
Plaintexts == {<<111 + k>> : k \in 1..NumPlaintexts}

\* the configurations handed to scrypt.SetConfig
ScryptConfigs ==
    {[KeyLen |-> 3, SaltLen |-> 3, LgN |-> 2, R |-> 1, P |-> 1],
     [KeyLen |-> 6, SaltLen |-> 3, LgN |-> 1, R |-> 1, P |-> 1],
     [KeyLen |-> 3, SaltLen |-> 3, LgN |-> 0, R |-> 1, P |-> 1]}

\* the configurations handed to pbkdf2.SetConfig
Pbkdf2Configs ==
    {[Hash |-> SHA1, Iterations |-> 2, KeyLen |-> 3, SaltLen |-> 3],
     [Hash |-> SHA1, Iterations |-> 2, KeyLen |-> 3, SaltLen |-> 6],
     [Hash |-> <<"M","D","5">>, Iterations |-> 1, KeyLen |-> 3, SaltLen |-> 3]}

\* the costs handed to bcrypt.SetCost
Costs == {MinCost, DefaultCost, MaxCost + 1}

Packages == {"bcrypt", "scrypt", "pbkdf2"}

\* the orders in which a program can link the encoder packages
ImportOrders ==
    {o \in UNION {[1..n -> Packages] : n \in 0..3} :
        \A i, j \in 1..Len(o) : i # j => o[i] # o[j]}

\* scrypt.register
ScryptRegister(encs, def, config) ==
    Register(encs, def, SCRYPT, BridgeNew(<<"s","c","r","y","p","t">>, "scrypt", config))

\* pbkdf2.register
Pbkdf2Register(encs, def, config) ==
    Register(encs, def, PBKDF2, BridgeNew(<<"p","b","k","d","f","2">>, "pbkdf2", config))

\* bcrypt.register
BcryptRegister(encs, def, c) == Register(encs, def, BCRYPT, c)

\* the init function of a package: register the default configuration
PackageInit(encs, def, pkg) ==
    CASE pkg = "scrypt" -> ScryptRegister(encs, def, ScryptGetConfig)
      [] pkg = "pbkdf2" -> Pbkdf2Register(encs, def, Pbkdf2GetConfig)
      [] pkg = "bcrypt" -> BcryptRegister(encs, def, BcryptNew(DefaultCost))

\* the registry after the init functions have run in the given order
RECURSIVE AfterInits(_)
AfterInits(order) ==
    IF Len(order) = 0
    THEN [err |-> "nil", encoders |-> [e \in 0..(maxEncoding - 1) |-> NoInstance],
          defaultEncoding |-> maxEncoding]
    ELSE LET before == AfterInits(SubSeq(order, 1, Len(order) - 1))
         IN  PackageInit(before.encoders, before.defaultEncoding, order[Len(order)])

Outcome(op, encoding, plain, encoded, ok, err, inner) ==
    [op |-> op, encoding |-> encoding, plain |-> plain, encoded |-> encoded,
     ok |-> ok, err |-> err, inner |-> inner]

Init ==
    \E order \in ImportOrders :
        /\ encoders = AfterInits(order).encoders
        /\ defaultEncoding = AfterInits(order).defaultEncoding
        /\ imports = Range(order)
        /\ store = {}
        /\ calls = NoCalls
        /\ last = Outcome("init", maxEncoding, <<>>, <<>>, TRUE, "nil", FALSE)

\* the registry as a register function left it, and the call's outcome
Registered(op, encoding, r) ==
    /\ encoders' = r.encoders
    /\ defaultEncoding' = r.defaultEncoding
    /\ last' = Outcome(op, encoding, <<>>, <<>>, r.err = "nil", r.err, FALSE)
    /\ UNCHANGED <<imports, store, calls>>

Refused(op, encoding, err) ==
    /\ last' = Outcome(op, encoding, <<>>, <<>>, FALSE, err, FALSE)
    /\ UNCHANGED <<encoders, defaultEncoding, imports, store, calls>>

\* scrypt.SetConfig(config)
ScryptSetConfig(config) ==
    /\ "scrypt" \in imports
    /\ IF ScryptValidate(config) # "nil"
       THEN Refused("scrypt.SetConfig", SCRYPT, ScryptValidate(config))
       ELSE Registered("scrypt.SetConfig", SCRYPT,
                       ScryptRegister(encoders, defaultEncoding, config))

\* pbkdf2.SetConfig(config)
Pbkdf2SetConfig(config) ==
    /\ "pbkdf2" \in imports
    /\ IF Pbkdf2Validate(config) # "nil"
       THEN Refused("pbkdf2.SetConfig", PBKDF2, Pbkdf2Validate(config))
       ELSE Registered("pbkdf2.SetConfig", PBKDF2,
                       Pbkdf2Register(encoders, defaultEncoding, config))

\* bcrypt.SetCost(cost): the library is asked whether it takes the cost
BcryptSetCost(cost) ==
    /\ "bcrypt" \in imports
    /\ \E try \in {GenerateFromPassword(<<112>>, cost, [i \in 1..BcryptSaltLen |-> 0])} :
           IF try.err # "nil"
           THEN Refused("bcrypt.SetCost", BCRYPT, try.err)
           ELSE Registered("bcrypt.SetCost", BCRYPT,
                           BcryptRegister(encoders, defaultEncoding, BcryptNew(cost)))

\* SetDefault without the look at the slot
SetDefaultUnregistered(encoding) ==
    IF ~IsValid(encoding) THEN Refused("SetDefault", encoding, "ErrInvalidEncoding")
    ELSE /\ defaultEncoding' = encoding
         /\ last' = Outcome("SetDefault", encoding, <<>>, <<>>, TRUE, "nil", FALSE)
         /\ UNCHANGED <<encoders, imports, store, calls>>

\* mcf.SetDefault(encoding)
SetDefault(encoding) ==
    IF ~IsValid(encoding) THEN Refused("SetDefault", encoding, "ErrInvalidEncoding")
    ELSE IF IsNil(encoders[encoding])
    THEN Refused("SetDefault", encoding, "ErrUnregisteredEncoding")
    ELSE /\ defaultEncoding' = encoding
         /\ last' = Outcome("SetDefault", encoding, <<>>, <<>>, TRUE, "nil", FALSE)
         /\ UNCHANGED <<encoders, imports, store, calls>>

\* mcf.Create(plaintext); the application stores the password it gets, with
\* a note of the plaintext, the salt and the encoder that made it.  One
\* password is followed from its creation on: the calls read one password at
\* a time and never another one.
CreateCall(plaintext, read) ==
    \E r \in {Create(encoders, defaultEncoding, plaintext, read)} :
        /\ store = {}
        /\ last' = Outcome("Create", defaultEncoding, plaintext, r.encoded,
                           r.err = "nil", r.err, FALSE)
        /\ store' = IF r.err # "nil" THEN store
                    ELSE {[encoded |-> r.encoded, plain |-> plaintext,
                           salt |-> read.bytes, alg |-> defaultEncoding,
                           by |-> encoders[defaultEncoding].enc]}
        /\ UNCHANGED <<encoders, defaultEncoding, imports, calls>>

\* the salt sources a call of Create may meet
CreateReads ==
    IF IsValid(defaultEncoding)
    THEN SaltReads(EncSaltLen(encoders[defaultEncoding].enc))
    ELSE SaltReads(0)

\* the encoded passwords handed to Verify and IsCurrent
Inputs == {r.encoded : r \in store}

\* mcf.Verify(plaintext, encoded)
VerifyCall(plaintext, encoded) ==
    \E r \in {Verify(encoders, plaintext, encoded)} :
        /\ last' = Outcome("Verify", findInstance(encoders, encoded), plaintext, encoded,
                           r.isValid, r.err, FALSE)
        /\ UNCHANGED <<encoders, defaultEncoding, imports, store, calls>>

\* mcf.IsCurrent(encoded)
IsCurrentCall(encoded) ==
    \E encoding \in {findInstance(encoders, encoded)} :
    \E r \in {IsCurrent(encoders, defaultEncoding, encoded)} :
    \E inner \in {IF encoding = maxEncoding THEN FALSE
                  ELSE EncIsCurrent(encoders[encoding].enc, encoded).isCurrent} :
        /\ last' = Outcome("IsCurrent", encoding, <<>>, encoded, r.isCurrent, r.err, inner)
        /\ UNCHANGED <<encoders, defaultEncoding, imports, store, calls>>

Next ==
    \/ \E config \in ScryptConfigs : ScryptSetConfig(config)
    \/ \E config \in Pbkdf2Configs : Pbkdf2SetConfig(config)
    \/ \E cost \in Costs : BcryptSetCost(cost)
    \/ \E encoding \in 0..maxEncoding : SetDefault(encoding)
    \/ \E plaintext \in Plaintexts : \E read \in CreateReads : CreateCall(plaintext, read)
    \/ \E plaintext \in Plaintexts : \E encoded \in Inputs : VerifyCall(plaintext, encoded)
    \/ \E encoded \in Inputs : IsCurrentCall(encoded)

Spec == Init /\ [][Next]_vars

-----------------------------------------------------------------------------
(* The codec and the bridge on their own: a Passwd with fields of the       *)
(* caller's choice is written by Bytes, and the text, whole or damaged, is  *)
(* handed to Parse and to the bridge encoders' Verify and IsCurrent.        *)

MaxFieldLen == 3

\* the salts and keys of the Passwd: the byte strings of 1..MaxFieldLen bytes
\* over 0 and 255
FieldBytes == UNION {[1..n -> {0, 255}] : n \in 1..MaxFieldLen}

\* the names a Passwd is made for: the bridge encoders' ids
CodecNames == {<<"s","c","r","y","p","t">>, <<"p","b","k","d","f","2">>}

\* the parameter text of a Passwd of the name
CodecParams(name) ==
    IF name = <<"s","c","r","y","p","t">>
    THEN ScryptParams([KeyLen |-> 3, SaltLen |-> 3, LgN |-> 2, R |-> 1, P |-> 1])
    ELSE Pbkdf2Params([Hash |-> SHA1, Iterations |-> 2, KeyLen |-> 3, SaltLen |-> 3])

Passwds ==
    {[Name |-> n, Params |-> CodecParams(n), Salt |-> salt, Key |-> key] :
        n \in CodecNames, salt \in FieldBytes, key \in FieldBytes}

\* the index of the last separator of a text that has one
LastSeparator(e) == CHOOSE i \in 1..Len(e) :
    e[i] = separator /\ \A j \in (i + 1)..Len(e) : e[j] # separator

\* the text e and the ways of damaging it: nothing at all, the leading
\* separator lost, the last field lost, a field too many, another name
Damaged(e) ==
    {e, <<>>, Tail(e), SubSeq(e, 1, LastSeparator(e) - 1),
     e \o <<separator, "/", "w", "=", "=">>,
     <<separator, "x">> \o Tail(e)}

CodecOutcome(op, r, name, plain, encoded, ok, err, parsed) ==
    [op |-> op, r |-> r, name |-> name, plain |-> plain, encoded |-> encoded,
     ok |-> ok, err |-> err, parsed |-> parsed]

InitCodec ==
    \E r \in Passwds :
        LET reg == AfterInits(<<"bcrypt", "scrypt", "pbkdf2">>)
        IN  /\ encoders = reg.encoders
            /\ defaultEncoding = reg.defaultEncoding
            /\ imports = Packages
            /\ store = {}
            /\ calls = NoCalls
            /\ last = CodecOutcome("New", r, r.Name, <<>>, <<>>, TRUE, "nil", New(r.Name))

\* r.Bytes()
CodecBytes ==
    /\ last.op = "New"
    /\ last' = CodecOutcome("Bytes", last.r, last.r.Name, <<>>, Bytes(last.r), TRUE, "nil",
                            New(last.r.Name))
    /\ UNCHANGED <<encoders, defaultEncoding, imports, store, calls>>

\* the texts handed on once r has been written: what Bytes gave, whole or
\* damaged
CodecInputs == IF last.op = "Bytes" THEN Damaged(last.encoded) ELSE {}

\* password.New(name).Parse(encoded)
CodecParse(name, encoded) ==
    \E parsed \in {Parse(New(name), encoded)} :
        /\ last' = CodecOutcome("Parse", last.r, name, <<>>, encoded, parsed.err = "nil",
                                parsed.err, parsed.p)
        /\ UNCHANGED <<encoders, defaultEncoding, imports, store, calls>>

\* the bridge encoders of the registry
Bridges == {e \in 0..(maxEncoding - 1) : encoders[e].enc.type = "bridge"}

\* (*Encoder).Verify(plaintext, encoded) of the bridge encoder in slot e
CodecVerify(e, plaintext, encoded) ==
    \E r \in {BridgeVerify(encoders[e].enc, plaintext, encoded)} :
        /\ last' = CodecOutcome("bridge.Verify", last.r, encoders[e].enc.name, plaintext,
                                encoded, r.isValid, r.err, New(encoders[e].enc.name))
        /\ UNCHANGED <<encoders, defaultEncoding, imports, store, calls>>

\* (*Encoder).IsCurrent(encoded) of the bridge encoder in slot e
CodecIsCurrent(e, encoded) ==
    \E r \in {BridgeIsCurrent(encoders[e].enc, encoded)} :
        /\ last' = CodecOutcome("bridge.IsCurrent", last.r, encoders[e].enc.name, <<>>,
                                encoded, r.isCurrent, r.err, New(encoders[e].enc.name))
        /\ UNCHANGED <<encoders, defaultEncoding, imports, store, calls>>

NextCodec ==
    \/ CodecBytes
    \/ \E name \in CodecNames : \E encoded \in CodecInputs : CodecParse(name, encoded)
    \/ \E e \in Bridges : \E plaintext \in Plaintexts : \E encoded \in CodecInputs :
            CodecVerify(e, plaintext, encoded)
    \/ \E e \in Bridges : \E encoded \in CodecInputs : CodecIsCurrent(e, encoded)

SpecCodec == InitCodec /\ [][NextCodec]_vars

-----------------------------------------------------------------------------
(* The registry on its own: from the empty registry of a program that       *)
(* imports no encoder package, adapters of the caller's choice are handed   *)
(* to Register, and the facade is called on texts of the caller's choice.   *)

\* the adapters handed to mcf.Register: the bcrypt adapter (id "2a"), bridge
\* encoders whose ids are "2", a prefix of "2a", and "s", and a bridge
\* encoder with an empty id
RegistryAdapters ==
    {BcryptNew(MinCost),
     BridgeNew(<<"2">>, "scrypt", [KeyLen |-> 3, SaltLen |-> 3, LgN |-> 2, R |-> 1, P |-> 1]),
     BridgeNew(<<"s">>, "scrypt", [KeyLen |-> 3, SaltLen |-> 3, LgN |-> 2, R |-> 1, P |-> 1]),
     BridgeNew(<<>>, "scrypt", [KeyLen |-> 3, SaltLen |-> 3, LgN |-> 2, R |-> 1, P |-> 1])}

\* the encodings handed to mcf.Register: two known ones and one out of range
RegistryEncodings == {BCRYPT, SCRYPT, maxEncoding}

RegistryOutcome(op, encoding, id, plain, encoded, ok, err, inner) ==
    [op |-> op, encoding |-> encoding, id |-> id, plain |-> plain, encoded |-> encoded,
     ok |-> ok, err |-> err, inner |-> inner]

InitRegistry ==
    /\ encoders = AfterInits(<<>>).encoders
    /\ defaultEncoding = AfterInits(<<>>).defaultEncoding
    /\ imports = {}
    /\ store = {}
    /\ calls = NoCalls
    /\ last = RegistryOutcome("init", maxEncoding, <<>>, <<>>, <<>>, TRUE, "nil", FALSE)

\* mcf.Register(encoding, encoder)
RegisterCall(encoding, encoder) ==
    \E r \in {Register(encoders, defaultEncoding, encoding, encoder)} :
        /\ encoders' = r.encoders
        /\ defaultEncoding' = r.defaultEncoding
        /\ last' = RegistryOutcome("Register", encoding, EncId(encoder), <<>>, <<>>,
                                   r.err = "nil", r.err, FALSE)
        /\ UNCHANGED <<imports, store, calls>>

\* mcf.Create(plaintext), the password handed back to the caller
RegistryCreate(plaintext, read) ==
    \E r \in {Create(encoders, defaultEncoding, plaintext, read)} :
        /\ last' = RegistryOutcome("Create", defaultEncoding, <<>>, plaintext, r.encoded,
                                   r.err = "nil", r.err, FALSE)
        /\ UNCHANGED <<encoders, defaultEncoding, imports, store, calls>>

\* the texts handed to Verify and IsCurrent: the empty text, texts no
\* adapter made, and the password the caller holds from the last call
RegistryInputs ==
    {<<>>, <<"$">>, <<"$", "x", "$">>}
        \cup (IF last.op \in {"Create", "Verify", "IsCurrent"} THEN {last.encoded} ELSE {})

NextRegistry ==
    \/ \E encoding \in RegistryEncodings : \E encoder \in RegistryAdapters :
            RegisterCall(encoding, encoder)
    \/ \E encoding \in 0..maxEncoding : SetDefault(encoding)
    \/ \E plaintext \in Plaintexts : \E read \in CreateReads : RegistryCreate(plaintext, read)
    \/ \E plaintext \in Plaintexts : \E encoded \in RegistryInputs :
            VerifyCall(plaintext, encoded)
    \/ \E encoded \in RegistryInputs : IsCurrentCall(encoded)

SpecRegistry == InitRegistry /\ [][NextRegistry]_vars

-----------------------------------------------------------------------------
(* SetConfig on its own: the encoder packages are handed configurations in  *)
(* which one knob is off a sound configuration.                             *)

\* the values a caller gives a knob of a configuration that is sound
\* otherwise: a greater one, zero, a negative one
KnobValues == {6, 0, -1}

\* the configurations handed to scrypt.SetConfig
ScryptKnobConfigs ==
    LET sound == [KeyLen |-> 3, SaltLen |-> 3, LgN |-> 2, R |-> 1, P |-> 1]
    IN  {sound} \cup {[sound EXCEPT ![f] = v] : f \in DOMAIN sound, v \in KnobValues}

\* the configurations handed to pbkdf2.SetConfig
Pbkdf2KnobConfigs ==
    LET sound == [Hash |-> SHA1, Iterations |-> 2, KeyLen |-> 3, SaltLen |-> 3]
    IN  {sound, [sound EXCEPT !.Hash = <<"M","D","5">>]}
            \cup {[sound EXCEPT ![f] = v] : f \in DOMAIN sound \ {"Hash"}, v \in KnobValues}

NextConfig ==
    \/ \E config \in ScryptKnobConfigs : ScryptSetConfig(config)
    \/ \E config \in Pbkdf2KnobConfigs : Pbkdf2SetConfig(config)
    \/ \E encoding \in 0..maxEncoding : SetDefault(encoding)

SpecConfig == Init /\ [][NextConfig]_vars

-----------------------------------------------------------------------------
(* AtLeast on its own: three configurations of one algorithm are compared.  *)

MaxKnob == 2

\* the values of a strength field
KnobRange == 1..MaxKnob

\* the scrypt configurations compared, with salt lengths of lens
ScryptStrengths(lens) ==
    {[KeyLen |-> k, SaltLen |-> s, LgN |-> n, R |-> r, P |-> p] :
        k \in KnobRange, s \in lens, n \in KnobRange, r \in KnobRange, p \in KnobRange}

\* the pbkdf2 configurations compared
Pbkdf2Strengths ==
    {[Hash |-> SHA1, Iterations |-> i, KeyLen |-> k, SaltLen |-> s] :
        i \in KnobRange, k \in KnobRange, s \in KnobRange}

AtLeastOutcome(op, alg, c, d, e, cc, cd, dc, de, ce) ==
    [op |-> op, alg |-> alg, c |-> c, d |-> d, e |-> e,
     cc |-> cc, cd |-> cd, dc |-> dc, de |-> de, ce |-> ce]

InitAtLeast ==
    /\ encoders = AfterInits(<<"scrypt", "pbkdf2">>).encoders
    /\ defaultEncoding = AfterInits(<<"scrypt", "pbkdf2">>).defaultEncoding
    /\ imports = {"scrypt", "pbkdf2"}
    /\ store = {}
    /\ calls = NoCalls
    /\ \/ \E c \in ScryptStrengths({1, 2}) : \E d, e \in ScryptStrengths({2}) :
            last = AtLeastOutcome("configs", "scrypt", c, d, e,
                                  FALSE, FALSE, FALSE, FALSE, FALSE)
       \/ \E c, d, e \in Pbkdf2Strengths :
            last = AtLeastOutcome("configs", "pbkdf2", c, d, e,
                                  FALSE, FALSE, FALSE, FALSE, FALSE)

\* c.AtLeast(c), c.AtLeast(d), d.AtLeast(c), d.AtLeast(e) and c.AtLeast(e)
AtLeastCalls ==
    /\ last.op = "configs"
    /\ last' = AtLeastOutcome("AtLeast", last.alg, last.c, last.d, last.e,
                              ImpAtLeast(last.alg, last.c, last.c),
                              ImpAtLeast(last.alg, last.c, last.d),
                              ImpAtLeast(last.alg, last.d, last.c),
                              ImpAtLeast(last.alg, last.d, last.e),
                              ImpAtLeast(last.alg, last.c, last.e))
    /\ UNCHANGED <<encoders, defaultEncoding, imports, store, calls>>

NextAtLeast == AtLeastCalls

SpecAtLeast == InitAtLeast /\ [][NextAtLeast]_vars

-----------------------------------------------------------------------------
(* Params and SetParams on their own: the parameters of a configuration     *)
(* that SetConfig accepts are written by Params and read by SetParams into  *)
(* a fresh parameter set.                                                   *)

\* the scrypt configurations written: those of one, two and three digits
ScryptWritten ==
    {c \in {[KeyLen |-> k, SaltLen |-> 16, LgN |-> n, R |-> r, P |-> p] :
                k \in {1, 10, 128}, n \in {1, 10, 128}, r \in {1, 10, 128},
                p \in {1, 10, 128}} :
        ScryptValidate(c) = "nil"}

\* the pbkdf2 configurations written: every known hash, and numbers that
\* are positive, zero and negative
Pbkdf2Written ==
    {c \in {[Hash |-> h, Iterations |-> i, KeyLen |-> k, SaltLen |-> 16] :
                h \in hashes \cup {<<"M","D","5">>}, i \in {-1, 0, 2000}, k \in {-1, 0, 20}} :
        Pbkdf2Validate(c) = "nil"}

\* the fresh parameter sets SetParams reads into: implementer() of an encoder
FreshSets(alg) ==
    IF alg = "scrypt"
    THEN {ScryptGetConfig, [KeyLen |-> 3, SaltLen |-> 3, LgN |-> 2, R |-> 1, P |-> 1]}
    ELSE {Pbkdf2GetConfig, [Hash |-> SHA512, Iterations |-> 2, KeyLen |-> 3, SaltLen |-> 3]}

ParamsOutcome(op, alg, c, fresh, text, err, got) ==
    [op |-> op, alg |-> alg, c |-> c, fresh |-> fresh, text |-> text, err |-> err,
     got |-> got]

InitParams ==
    /\ encoders = AfterInits(<<"scrypt", "pbkdf2">>).encoders
    /\ defaultEncoding = AfterInits(<<"scrypt", "pbkdf2">>).defaultEncoding
    /\ imports = {"scrypt", "pbkdf2"}
    /\ store = {}
    /\ calls = NoCalls
    /\ \E alg \in {"scrypt", "pbkdf2"} :
       \E c \in (IF alg = "scrypt" THEN ScryptWritten ELSE Pbkdf2Written) :
       \E fresh \in FreshSets(alg) :
            last = ParamsOutcome("config", alg, c, fresh, <<>>, "nil", fresh)

\* c.Params()
ParamsCall ==
    /\ last.op = "config"
    /\ last' = ParamsOutcome("Params", last.alg, last.c, last.fresh,
                             ImpParams(last.alg, last.c), "nil", last.fresh)
    /\ UNCHANGED <<encoders, defaultEncoding, imports, store, calls>>

\* fresh.SetParams(text)
SetParamsCall ==
    /\ last.op = "Params"
    /\ \E r \in {ImpSetParams(last.alg, last.fresh, last.text)} :
            last' = ParamsOutcome("SetParams", last.alg, last.c, last.fresh, last.text,
                                  r.err, r.c)
    /\ UNCHANGED <<encoders, defaultEncoding, imports, store, calls>>

NextParams == ParamsCall \/ SetParamsCall

SpecParams == InitParams /\ [][NextParams]_vars

-----------------------------------------------------------------------------
(* mcf.Salt on its own: a size, and a source that is nil or a SaltMiner     *)
(* returning any bytes and any error.                                       *)

MaxSaltSize == 3

\* the byte strings of at most n bytes, each 0 or 255
RECURSIVE ByteStrings(_)
ByteStrings(n) ==
    IF n = 0 THEN {<<>>}
    ELSE ByteStrings(n - 1)
            \cup {Append(b, x) : b \in {y \in ByteStrings(n - 1) : Len(y) = n - 1},
                                 x \in {0, 255}}

\* what the source gives: rand.Reader fills size bytes; a miner returns
\* bytes of any length with or without an error
SaltSources(size) ==
    {[miner |-> FALSE, bytes |-> [i \in 1..size |-> b], err |-> "nil"] : b \in {0, 255}}
        \cup {[miner |-> TRUE, bytes |-> b, err |-> e] :
                 b \in ByteStrings(MaxSaltSize + 1), e \in {"nil", "miner failed"}}

SaltOutcome(op, size, read, salt, err) ==
    [op |-> op, size |-> size, read |-> read, salt |-> salt, err |-> err]

InitSalt ==
    /\ encoders = AfterInits(<<"scrypt", "pbkdf2">>).encoders
    /\ defaultEncoding = AfterInits(<<"scrypt", "pbkdf2">>).defaultEncoding
    /\ imports = {"scrypt", "pbkdf2"}
    /\ store = {}
    /\ calls = NoCalls
    /\ \E size \in 0..MaxSaltSize : \E read \in SaltSources(size) :
            last = SaltOutcome("source", size, read, <<>>, "nil")

\* Salt(size, minerFn)
SaltCall ==
    /\ last.op = "source"
    /\ \E r \in {Salt(last.size, last.read)} :
            last' = SaltOutcome("Salt", last.size, last.read, r.salt, r.err)
    /\ UNCHANGED <<encoders, defaultEncoding, imports, store, calls>>

NextSalt == SaltCall

SpecSalt == InitSalt /\ [][NextSalt]_vars

-----------------------------------------------------------------------------
(* decode on its own: a field of the caller's choice is decoded.            *)

MaxTextLen == 4

\* the characters of the fields: hex digits of both cases and of neither,
\* characters of base64 only, the padding, and one of no alphabet
TextChars == {"A", "a", "0", "g", "/", "=", "!"}

\* the fields of at most n characters
RECURSIVE Texts(_)
Texts(n) ==
    IF n = 0 THEN {<<>>}
    ELSE Texts(n - 1)
            \cup {Append(t, c) : t \in {u \in Texts(n - 1) : Len(u) = n - 1},
                                 c \in TextChars}

DecodeOutcome(op, field, dst, err) == [op |-> op, field |-> field, dst |-> dst, err |-> err]

InitDecode ==
    /\ encoders = AfterInits(<<"scrypt", "pbkdf2">>).encoders
    /\ defaultEncoding = AfterInits(<<"scrypt", "pbkdf2">>).defaultEncoding
    /\ imports = {"scrypt", "pbkdf2"}
    /\ store = {}
    /\ calls = NoCalls
    /\ \E field \in Texts(MaxTextLen) : last = DecodeOutcome("field", field, <<>>, "nil")

\* decode(encoded)
DecodeCall ==
    /\ last.op = "field"
    /\ \E r \in {decode(last.field)} :
            last' = DecodeOutcome("decode", last.field, r.dst, r.err)
    /\ UNCHANGED <<encoders, defaultEncoding, imports, store, calls>>

NextDecode == DecodeCall

SpecDecode == InitDecode /\ [][NextDecode]_vars

-----------------------------------------------------------------------------
(* The codec with the hex transform: a Passwd whose Encoder is EncodeHex is *)
(* written by Bytes and read by Parse with the default Decoder.             *)

\* the salts and keys written in hex: the byte strings of 0..MaxFieldLen
\* bytes over 0x0a and 0xff
HexFieldBytes == UNION {[1..n -> {10, 255}] : n \in 0..MaxFieldLen}

HexNames == CodecNames \cup {<<>>}

\* the Passwds written in hex: the name and the params may be empty, and the
\* params may hold a separator
HexPasswds ==
    {[Name |-> n, Params |-> p, Salt |-> salt, Key |-> key] :
        n \in HexNames, p \in {CodecParams(<<"s","c","r","y","p","t">>), <<>>, <<"a", separator, "b">>},
        salt \in HexFieldBytes, key \in HexFieldBytes}

InitHexCodec ==
    \E r \in HexPasswds :
        LET reg == AfterInits(<<"bcrypt", "scrypt", "pbkdf2">>)
        IN  /\ encoders = reg.encoders
            /\ defaultEncoding = reg.defaultEncoding
            /\ imports = Packages
            /\ store = {}
            /\ calls = NoCalls
            /\ last = CodecOutcome("New", r, r.Name, <<>>, <<>>, TRUE, "nil", New(r.Name))

\* r.Encoder = EncodeHex; r.Bytes()
HexCodecBytes ==
    /\ last.op = "New"
    /\ last' = CodecOutcome("Bytes", last.r, last.r.Name, <<>>, BytesWith(last.r, TRUE), TRUE,
                            "nil", New(last.r.Name))
    /\ UNCHANGED <<encoders, defaultEncoding, imports, store, calls>>

NextHexCodec ==
    \/ HexCodecBytes
    \/ \E name \in HexNames : \E encoded \in CodecInputs : CodecParse(name, encoded)

SpecHexCodec == InitHexCodec /\ [][NextHexCodec]_vars

-----------------------------------------------------------------------------
(* The facade called from goroutines.  encoders and defaultEncoding are     *)
(* package variables that Register, SetDefault, Generate, findInstance and  *)
(* IsCurrent read and write with no lock, channel or atomic operation, so a *)
(* call is a sequence of steps, one for each read or write of a package     *)
(* variable, and the steps of the goroutines interleave.  What a call does  *)
(* between two of them touches only what the call owns and is part of the   *)
(* step before.  The program has brought the registry to its starting form  *)
(* before it starts the goroutines; each goroutine makes one call.          *)

NumGoroutines == 3

Goroutines == 1..NumGoroutines

\* the nil Encoder of an instance whose fields a reader does not see yet
NilEncoder == [type |-> "nil"]

ScryptLow ==
    BridgeNew(<<"s","c","r","y","p","t">>, "scrypt",
              [KeyLen |-> 3, SaltLen |-> 3, LgN |-> 2, R |-> 1, P |-> 1])

ScryptHigh ==
    BridgeNew(<<"s","c","r","y","p","t">>, "scrypt",
              [KeyLen |-> 6, SaltLen |-> 3, LgN |-> 2, R |-> 1, P |-> 1])

Pbkdf2Low ==
    BridgeNew(<<"p","b","k","d","f","2">>, "pbkdf2",
              [Hash |-> SHA1, Iterations |-> 2, KeyLen |-> 3, SaltLen |-> 3])

\* the registrations the goroutines make: scrypt.SetConfig of two
\* configurations and pbkdf2.SetConfig of one, each of which is
\* mcf.Register(encoding, bridge.New(name, fn))
Registrations ==
    {[encoding |-> SCRYPT, encoder |-> ScryptLow],
     [encoding |-> SCRYPT, encoder |-> ScryptHigh],
     [encoding |-> PBKDF2, encoder |-> Pbkdf2Low]}

\* the plaintext and the salt of the password the goroutines read
ConcurrentPlain == <<112>>

ConcurrentRead == [miner |-> FALSE, bytes |-> <<255, 255, 255>>, err |-> "nil"]

\* the stored password: made by scrypt with the low configuration
ConcurrentRecord == BridgeCreate(ScryptLow, ConcurrentPlain, ConcurrentRead).encoded

\* a password whose parameters are cut short after the first number:
\* SetParams reads KeyLen and fails
CutRecord ==
    Bytes([Name |-> <<"s","c","r","y","p","t">>,
           Params |-> ScryptFormat[1] \o Dec(9) \o ScryptFormat[2],
           Salt |-> <<255, 255, 255>>, Key |-> <<255, 255, 255>>])

\* the passwords handed to Verify and IsCurrent
ConcurrentRecords == {ConcurrentRecord, CutRecord}

\* the registries the goroutines start from: the empty one of a program that
\* imports no encoder package, and the one of scrypt and pbkdf2 with either
\* of them the default
ConcurrentStarts ==
    {[encoders |-> AfterInits(<<>>).encoders, defaultEncoding |-> maxEncoding,
      imports |-> {}]}
    \cup {[encoders |-> [AfterInits(<<>>).encoders EXCEPT
                            ![SCRYPT] = [id |-> EncId(ScryptLow), enc |-> ScryptLow],
                            ![PBKDF2] = [id |-> EncId(Pbkdf2Low), enc |-> Pbkdf2Low]],
           defaultEncoding |-> d, imports |-> {"scrypt", "pbkdf2"}] : d \in {SCRYPT, PBKDF2}}

\* a goroutine that has not made its call
Idle ==
    [op |-> "none", pc |-> "idle", encoding |-> maxEncoding, encoder |-> NilEncoder,
     encoded |-> <<>>, ok |-> FALSE, err |-> "nil", could |-> {}]

\* a call of goroutine g: the operation, the statement it is at, its
\* encoding and encoder (arguments of Register and SetDefault, results of
\* findInstance), the password it reads, its boolean and its error.  could is kept for the claims:
\* what IsCurrent answers in each registry there has been since the call began
Call(op, pc, encoding, encoder, encoded, ok, err, could) ==
    [op |-> op, pc |-> pc, encoding |-> encoding, encoder |-> encoder,
     encoded |-> encoded, ok |-> ok, err |-> err, could |-> could]

Returned(c) == c.pc \in {"done", "panic"}

ConcurrentOutcome(g, c, created) ==
    [op |-> c.op, goroutine |-> g, encoding |-> c.encoding,
     encoded |-> IF c.op = "Create" THEN created ELSE c.encoded, ok |-> c.ok, err |-> c.err]

InitConcurrent ==
    \E start \in ConcurrentStarts :
        /\ encoders = start.encoders
        /\ defaultEncoding = start.defaultEncoding
        /\ imports = start.imports
        /\ store = {}
        /\ calls = [g \in Goroutines |-> Idle]
        /\ last = ConcurrentOutcome(0, Idle, <<>>)

\* the calls, with what IsCurrent answers in the registry (encs, def) added
\* to could of every IsCurrent call under way
Witnessed(cs, encs, def) ==
    [g \in DOMAIN cs |->
        IF cs[g].op = "IsCurrent" /\ ~Returned(cs[g])
        THEN [cs[g] EXCEPT !.could = @ \cup {IsCurrent(encs, def, cs[g].encoded)}]
        ELSE cs[g]]

\* one step of goroutine g: its call becomes c, the package variables become
\* encs and def, and a call that returns or panics gives its outcome
Step(g, c, encs, def, created) ==
    /\ \A h \in Goroutines : calls[h].pc # "panic"
    /\ calls' = Witnessed([calls EXCEPT ![g] = c], encs, def)
    /\ encoders' = encs
    /\ defaultEncoding' = def
    /\ last' = IF Returned(c) THEN ConcurrentOutcome(g, c, created) ELSE last
    /\ UNCHANGED <<imports, store>>

\* Register, to the assignment of the slot:
\*     encoders[encoding] = &instance{id: id, Encoder: encoder}
RegisterSlot(g, encoding, encoder) ==
    /\ calls[g] = Idle
    /\ IF ~IsValid(encoding)
       THEN Step(g, Call("Register", "done", encoding, encoder, <<>>, FALSE, "ErrInvalidEncoding", {}),
                 encoders, defaultEncoding, <<>>)
       ELSE IF Len(EncId(encoder)) = 0
       THEN Step(g, Call("Register", "done", encoding, encoder, <<>>, FALSE, "empty id", {}),
                 encoders, defaultEncoding, <<>>)
       ELSE Step(g, Call("Register", "default?", encoding, encoder, <<>>, FALSE, "nil", {}),
                 [encoders EXCEPT ![encoding] = [id |-> EncId(encoder), enc |-> encoder]],
                 defaultEncoding, <<>>)

\* Register: if !defaultEncoding.IsValid()
RegisterCheck(g) ==
    /\ calls[g].op = "Register" /\ calls[g].pc = "default?"
    /\ Step(g, [calls[g] EXCEPT !.pc = IF IsValid(defaultEncoding) THEN "done" ELSE "default="],
            encoders, defaultEncoding, <<>>)

\* Register: defaultEncoding = encoding.  ok tells that the call has
\* assigned the default
RegisterDefault(g) ==
    /\ calls[g].op = "Register" /\ calls[g].pc = "default="
    /\ Step(g, [calls[g] EXCEPT !.pc = "done", !.ok = TRUE],
            encoders, calls[g].encoding, <<>>)

\* SetDefault, to the look at the slot: if encoders[encoding] == nil
SetDefaultSlot(g, encoding) ==
    /\ calls[g] = Idle
    /\ IF ~IsValid(encoding)
       THEN Step(g, Call("SetDefault", "done", encoding, NilEncoder, <<>>, FALSE,
                         "ErrInvalidEncoding", {}),
                 encoders, defaultEncoding, <<>>)
       ELSE IF IsNil(encoders[encoding])
       THEN Step(g, Call("SetDefault", "done", encoding, NilEncoder, <<>>, FALSE,
                         "ErrUnregisteredEncoding", {}),
                 encoders, defaultEncoding, <<>>)
       ELSE Step(g, Call("SetDefault", "default=", encoding, NilEncoder, <<>>, FALSE, "nil", {}),
                 encoders, defaultEncoding, <<>>)

\* SetDefault: defaultEncoding = encoding
SetDefaultAssign(g) ==
    /\ calls[g].op = "SetDefault" /\ calls[g].pc = "default="
    /\ Step(g, [calls[g] EXCEPT !.pc = "done", !.ok = TRUE],
            encoders, calls[g].encoding, <<>>)

\* the slots whose instance a goroutine other than g has assigned: g reads
\* the pointer and the fields of the instance with nothing that orders its
\* reads after the writes of the fields
Racy(g) ==
    {i \in 0..(maxEncoding - 1) :
        \E h \in Goroutines \ {g} :
            /\ calls[h].op = "Register" /\ calls[h].encoding = i /\ calls[h].err = "nil"
            /\ encoders[i].enc = calls[h].encoder}

\* encoders as a reader finds them that does not see the id of the
\* instances in the slots noId yet
Observed(encs, noId) ==
    [i \in DOMAIN encs |-> IF i \in noId THEN [encs[i] EXCEPT !.id = <<>>] ELSE encs[i]]

\* the Encoder of the instance in the slot as a reader finds it
ObservedEncoder(encs, slot, noEncoder) ==
    IF slot \in noEncoder THEN NilEncoder ELSE encs[slot].enc

\* fn returning the address of the registered configuration itself
implementerShared(enc) == [cell |-> "registered", config |-> enc.config]

\* fn of register: c := config; return &c.  The Implementer is a cell of the
\* call's own that holds a copy of the registered configuration
implementer(enc) == [cell |-> "own", config |-> enc.config]

\* the registry after imp.SetParams in Verify and IsCurrent of the encoder
\* in the slot: SetParams writes into the cell of imp whatever it has read
\* of the parameters, also when it fails
AfterSetParams(encs, slot, enc, encoded) ==
    IF enc.type # "bridge" \/ Parse(New(enc.name), encoded).err # "nil" THEN encs
    ELSE IF implementer(enc).cell = "own" \/ encs[slot].enc # enc THEN encs
    ELSE [encs EXCEPT ![slot].enc.config =
              ImpSetParams(enc.alg, implementer(enc).config,
                           Parse(New(enc.name), encoded).p.Params).c]

\* Verify and IsCurrent, to the end of findInstance: for i, e := range encoders
Find(g, op, encoded, noId, noEncoder) ==
    /\ calls[g] = Idle
    /\ \E slot \in {findInstance(Observed(encoders, noId), encoded)} :
       \E could \in {IF op = "IsCurrent"
                     THEN {IsCurrent(encoders, defaultEncoding, encoded)} ELSE {}} :
           IF slot = maxEncoding
           THEN Step(g, Call(op, "done", slot, NilEncoder, encoded, FALSE, "errNoEncoder", could),
                     encoders, defaultEncoding, <<>>)
           ELSE Step(g, Call(op, "encoder", slot,
                             ObservedEncoder(encoders, slot, noEncoder), encoded, FALSE,
                             "nil", could),
                     encoders, defaultEncoding, <<>>)

\* mcf.Verify: return encoder.Verify([]byte(plaintext), b)
EncoderVerify(g) ==
    /\ calls[g].op = "Verify" /\ calls[g].pc = "encoder"
    /\ IF calls[g].encoder = NilEncoder
       THEN Step(g, [calls[g] EXCEPT !.pc = "panic", !.err = "nil pointer dereference"],
                 encoders, defaultEncoding, <<>>)
       ELSE \E r \in {EncVerify(calls[g].encoder, ConcurrentPlain, calls[g].encoded)} :
                Step(g, [calls[g] EXCEPT !.pc = "done", !.ok = r.isValid, !.err = r.err],
                     AfterSetParams(encoders, calls[g].encoding, calls[g].encoder,
                                    calls[g].encoded),
                     defaultEncoding, <<>>)

\* mcf.IsCurrent: isCurrent, err = encoder.IsCurrent(b)
EncoderIsCurrent(g) ==
    /\ calls[g].op = "IsCurrent" /\ calls[g].pc = "encoder"
    /\ IF calls[g].encoder = NilEncoder
       THEN Step(g, [calls[g] EXCEPT !.pc = "panic", !.err = "nil pointer dereference"],
                 encoders, defaultEncoding, <<>>)
       ELSE \E r \in {EncIsCurrent(calls[g].encoder, calls[g].encoded)} :
                Step(g, [calls[g] EXCEPT
                            !.pc = IF r.err = "nil" /\ r.isCurrent THEN "default?" ELSE "done",
                            !.ok = r.isCurrent, !.err = r.err],
                     AfterSetParams(encoders, calls[g].encoding, calls[g].encoder,
                                    calls[g].encoded),
                     defaultEncoding, <<>>)

\* mcf.IsCurrent: isCurrent = encoding == defaultEncoding
IsCurrentDefault(g) ==
    /\ calls[g].op = "IsCurrent" /\ calls[g].pc = "default?"
    /\ Step(g, [calls[g] EXCEPT !.pc = "done", !.ok = (calls[g].encoding = defaultEncoding)],
            encoders, defaultEncoding, <<>>)

\* Generate: if !defaultEncoding.IsValid()
GenerateCheck(g) ==
    /\ calls[g] = Idle
    /\ IF ~IsValid(defaultEncoding)
       THEN Step(g, Call("Create", "done", maxEncoding, NilEncoder, <<>>, FALSE,
                         "No encoders registered", {}),
                 encoders, defaultEncoding, <<>>)
       ELSE Step(g, Call("Create", "encoder", maxEncoding, NilEncoder, <<>>, FALSE, "nil", {}),
                 encoders, defaultEncoding, <<>>)

\* Generate: encoder := encoders[defaultEncoding]; encoder.Generate(...)
GenerateEncoder(g, noEncoder) ==
    /\ calls[g].op = "Create" /\ calls[g].pc = "encoder"
    /\ IF IsNil(encoders[defaultEncoding])
       THEN Step(g, [calls[g] EXCEPT !.pc = "panic", !.encoding = defaultEncoding,
                                     !.err = "missing implementation"],
                 encoders, defaultEncoding, <<>>)
       ELSE IF ObservedEncoder(encoders, defaultEncoding, noEncoder) = NilEncoder
       THEN Step(g, [calls[g] EXCEPT !.pc = "panic", !.encoding = defaultEncoding,
                                     !.err = "nil pointer dereference"],
                 encoders, defaultEncoding, <<>>)
       ELSE \E r \in {EncCreate(encoders[defaultEncoding].enc, ConcurrentPlain,
                                ConcurrentRead)} :
                Step(g, [calls[g] EXCEPT !.pc = "done", !.encoding = defaultEncoding,
                                         !.encoder = encoders[defaultEncoding].enc,
                                         !.ok = (r.err = "nil"), !.err = r.err],
                     encoders, defaultEncoding, r.encoded)

\* the steps of goroutine g when the slots of unseen are those whose
\* instance it may find with fields not yet written
Steps(g, unseen) ==
    \/ \E r \in Registrations : RegisterSlot(g, r.encoding, r.encoder)
    \/ RegisterCheck(g)
    \/ RegisterDefault(g)
    \/ \E encoding \in {SCRYPT, PBKDF2} : SetDefaultSlot(g, encoding)
    \/ SetDefaultAssign(g)
    \/ \E op \in {"Verify", "IsCurrent"} : \E encoded \in ConcurrentRecords :
       \E noId \in SUBSET unseen : \E noEncoder \in SUBSET unseen :
            Find(g, op, encoded, noId, noEncoder)
    \/ EncoderVerify(g)
    \/ EncoderIsCurrent(g)
    \/ IsCurrentDefault(g)
    \/ GenerateCheck(g)
    \/ \E noEncoder \in SUBSET unseen : GenerateEncoder(g, noEncoder)

\* the goroutines as the Go memory model lets them run: a read that races
\* with a write may find the pointer of an instance before its fields
NextConcurrent == \E g \in Goroutines : Steps(g, Racy(g))

SpecConcurrent == InitConcurrent /\ [][NextConcurrent]_vars

\* the goroutines on a machine that keeps the order of the writes: every
\* read finds the whole of the last write, and only the order of the steps
\* is free
NextInterleaved == \E g \in Goroutines : Steps(g, {})

SpecInterleaved == InitConcurrent /\ [][NextInterleaved]_vars

-----------------------------------------------------------------------------
(* The stored password and what the claims say of it.                       *)

\* the stored password, when there is one
Rec == CHOOSE r \in store : TRUE

\* the last call was op, on the stored password
OnRecord(op) == store # {} /\ last.op = op /\ last.encoded = Rec.encoded

\* the encoder registered now for the algorithm of the stored password
Live == encoders[Rec.alg].enc

\* the default is the algorithm that made the stored password, configured as
\* it was when it made it
AsCreated == defaultEncoding = Rec.alg /\ Live = Rec.by

\* the strength fields AtLeast compares, by encoder
Tracked(enc) ==
    IF enc.type = "bcrypt" THEN {"Cost"}
    ELSE IF enc.alg = "scrypt" THEN {"LgN", "R", "P", "KeyLen"}
    ELSE {"Iterations", "KeyLen", "SaltLen"}

\* the strength fields SetParams restores from a password's parameter text
Restored(enc) ==
    IF enc.type = "bcrypt" THEN {"Cost"}
    ELSE IF enc.alg = "scrypt" THEN {"LgN", "R", "P", "KeyLen"}
    ELSE {"Iterations", "KeyLen"}

Field(enc, f) == IF enc.type = "bcrypt" THEN enc.Cost ELSE enc.config[f]

\* the digest of plaintext under the parameters of enc and the salt
KeyOf(enc, plaintext, salt) ==
    IF enc.type = "bcrypt" THEN Digest(plaintext, salt, enc.Cost, BcryptSaltLen)
    ELSE ImpKey(enc.alg, enc.config, plaintext, salt).key

\* C1: Verify(p, Create(p)) returns (true, nil) when the registry and the
\* configuration are as they were at Create, for every salt the source
\* returns and every digest the key function produces.
C1_CreateThenVerify ==
    (OnRecord("Verify") /\ last.plain = Rec.plain /\ AsCreated)
        => (last.ok /\ last.err = "nil")

\* C2: Verify(p2, Create(p1)) with p2 # p1 and distinct digests under the
\* password's parameters and salt returns (false, nil): a mismatch is not
\* an error.
C2_WrongPasswordRejected ==
    (/\ OnRecord("Verify")
     /\ last.plain # Rec.plain
     /\ KeyOf(Rec.by, last.plain, Rec.salt) # KeyOf(Rec.by, Rec.plain, Rec.salt))
        => (~last.ok /\ last.err = "nil")

\* C3: IsCurrent(Create(p)) returns (true, nil) for as long as the default
\* encoder's configuration equals the one the password was created under.
C3_CurrentWhileUnchanged ==
    (OnRecord("IsCurrent") /\ AsCreated) => (last.ok /\ last.err = "nil")

\* the encoder that the last call resolved the password to
Resolved == encoders[last.encoding].enc

\* IsCurrent was called on the stored password and its adapter gave an answer
AdapterAnswered == OnRecord("IsCurrent") /\ last.err = "nil"

C5_CurrentOnlyForDefault ==
    (last.op = "IsCurrent" /\ last.ok) => last.encoding = defaultEncoding

\* IsCurrent on a password whose adapter calls it current, after SetDefault
\* chose another algorithm: the facade answers (false, nil)
C5_Witness ==
    /\ AdapterAnswered
    /\ last.inner
    /\ last.encoding # defaultEncoding
    /\ Live = Rec.by
    /\ ~last.ok

\* C6: whenever IsCurrent returns false (and no error), no tracked strength
\* field of the live default configuration is lower than the password's, so
\* creating the password again never makes a weaker one.
C6_UpgradeNeverWeakens ==
    (AdapterAnswered /\ ~last.ok /\ defaultEncoding = Rec.alg)
        => \A f \in Tracked(Live) : Field(Live, f) >= Field(Rec.by, f)

\* what the last call answered, as Verify returns it
Answer == [isValid |-> last.ok, err |-> last.err]

\* Verify does not read the default: whatever SetDefault has chosen since
\* the password was made, Verify resolves it to the algorithm that made it
\* and answers what that algorithm's encoder answers
VerifyIgnoresDefault ==
    OnRecord("Verify") =>
        /\ last.encoding = Rec.alg
        /\ Answer = EncVerify(Live, last.plain, Rec.encoded)

\* C7: Verify is independent of the default.  After any calls of SetDefault
\* among the registered algorithms Verify returns the same result for a
\* password of any of them, and for the plaintext that made the password
\* that result is (true, nil).
C7_VerifyAfterSetDefault ==
    /\ VerifyIgnoresDefault
    /\ (/\ OnRecord("Verify")
        /\ last.plain = Rec.plain
        /\ defaultEncoding # Rec.alg
        /\ Live = Rec.by)
            => Answer = [isValid |-> TRUE, err |-> "nil"]

\* Verify derives the key under the parameters restored from the password,
\* not the live ones: whatever SetConfig (SetCost) has registered since the
\* password was made, Verify answers what the encoder answers as it was
\* configured when it made the password
VerifyUsesStoredParams ==
    OnRecord("Verify") => Answer = EncVerify(Rec.by, last.plain, Rec.encoded)

\* C8: the result of Verify is the same before and after any successful
\* SetConfig on the password's algorithm, so a password made under another
\* configuration than the live one still verifies: Verify returns
\* (true, nil) for the plaintext that made it.
C8_VerifyAfterSetConfig ==
    /\ VerifyUsesStoredParams
    /\ (/\ OnRecord("Verify")
        /\ last.plain = Rec.plain
        /\ Live # Rec.by)
            => Answer = [isValid |-> TRUE, err |-> "nil"]

\* the fields of a Passwd that the text carries
Fields(p) == <<p.Name, p.Params, p.Salt, p.Key>>

\* Parse, by a Passwd made for r's name, has read what Bytes wrote of r
ParsedBack ==
    last.op = "Parse" /\ last.encoded = Bytes(last.r) /\ last.name = last.r.Name

\* C9: for every Passwd r with non-empty name, params, salt and key and no
\* separator in its name and params, Parse(Bytes(r)) by a Passwd made for
\* r's name succeeds and yields r's four fields, so that
\* Bytes(Parse(Bytes(r))) = Bytes(r).
C9_RoundTrip ==
    (/\ ParsedBack
     /\ \A i \in 1..fieldCount : Len(Fields(last.r)[i]) > 0
     /\ \A i \in 1..2 : separator \notin Range(Fields(last.r)[i]))
        => /\ last.err = "nil"
           /\ Fields(last.parsed) = Fields(last.r)
           /\ Bytes(last.parsed) = Bytes(last.r)

\* the text begins with the separator, the name and the separator
HasName(encoded, name) == IsPrefix(<<separator>> \o name \o <<separator>>, encoded)

\* the text is malformed for a Passwd of the name: it is empty, or does not
\* begin with the separator, or has not three more separators after it, or
\* its name field is not the name
Malformed(encoded, name) ==
    \/ Len(encoded) = 0
    \/ encoded[1] # separator
    \/ Cardinality({i \in 2..Len(encoded) : encoded[i] = separator}) # fieldCount - 1
    \/ ~HasName(encoded, name)

\* the errors of Parse for a malformed text
StructuralErrors ==
    {"empty password", "password does not begin with separator",
     "password has too few fields", "password has too many fields",
     "unexpected password type"}

\* C10: for a text that is empty, or does not begin with '$', or has fewer
\* or more than 4 fields, or whose name field is not the adapter's id, Parse
\* returns a structural error and the bridge's Verify and IsCurrent return
\* (false, that error): never true.
C10_MalformedRejected ==
    (/\ last.op \in {"Parse", "bridge.Verify", "bridge.IsCurrent"}
     /\ Malformed(last.encoded, last.name))
        => (~last.ok /\ last.err \in StructuralErrors)

\* the bridge's Verify has refused a text that has a field too many
C10_Witness ==
    /\ last.op = "bridge.Verify"
    /\ Len(last.encoded) > 0
    /\ last.encoded[1] = separator
    /\ HasName(last.encoded, last.name)
    /\ Cardinality({i \in 2..Len(last.encoded) : last.encoded[i] = separator}) = fieldCount
    /\ ~last.ok
    /\ last.err = "password has too many fields"

-----------------------------------------------------------------------------
(* The registry and what the claims say of it.                              *)

\* the occupied slots whose id is a prefix of encoded[1:]
Matching(encoded) ==
    {i \in 0..(maxEncoding - 1) :
        /\ ~IsNil(encoders[i])
        /\ Len(encoded) > 0
        /\ IsPrefix(encoders[i].id, SubSeq(encoded, 2, Len(encoded)))}

\* C11: when no registered id is a prefix of encoded[1:] (the empty text and
\* the empty registry included), Verify and IsCurrent return false with
\* errNoEncoder, and no adapter has answered.
C11_NoMatchingEncoder ==
    (last.op \in {"Verify", "IsCurrent"} /\ Matching(last.encoded) = {})
        => /\ ~last.ok
           /\ last.err = "errNoEncoder"
           /\ last.encoding = maxEncoding
           /\ ~last.inner

\* Verify of a text that no id of a registry with an encoder in it matches
C11_Witness ==
    /\ last.op = "Verify"
    /\ IsValid(defaultEncoding)
    /\ Len(last.encoded) > 1
    /\ Matching(last.encoded) = {}
    /\ last.err = "errNoEncoder"

\* C12: resolution is deterministic.  When the ids of several occupied
\* slots are prefixes of encoded[1:], Verify and IsCurrent go to the
\* lowest-numbered of them and answer what its adapter answers, whatever the
\* default is and in whatever order the adapters were registered.
C12_LowestSlotWins ==
    (last.op \in {"Verify", "IsCurrent"} /\ Matching(last.encoded) # {})
        => /\ last.encoding \in Matching(last.encoded)
           /\ \A j \in Matching(last.encoded) : last.encoding <= j
           /\ last.op = "Verify" =>
                Answer = EncVerify(encoders[last.encoding].enc, last.plain, last.encoded)
           /\ last.op = "IsCurrent" =>
                last.inner = EncIsCurrent(encoders[last.encoding].enc, last.encoded).isCurrent

\* Verify of a text that the ids of two slots match, the higher of them the
\* default: the lower one has answered
C12_Witness ==
    /\ last.op = "Verify"
    /\ Cardinality(Matching(last.encoded)) = 2
    /\ encoders[BCRYPT].id # encoders[SCRYPT].id
    /\ defaultEncoding = SCRYPT
    /\ last.encoding = BCRYPT

\* C13: ambiguous identifier prefixes are rejected at registration: after
\* any calls of Register no two occupied slots hold ids one of which is a
\* prefix of the other.
C13_NoAmbiguousPrefix ==
    \A i, j \in 0..(maxEncoding - 1) :
        (i # j /\ ~IsNil(encoders[i]) /\ ~IsNil(encoders[j]))
            => ~IsPrefix(encoders[i].id, encoders[j].id)

\* C14: from the empty registry, where no default is set, the default is
\* the argument of the last successful SetDefault if there was one, and
\* otherwise the encoding of the first successful Register.  Step by step: a
\* successful SetDefault makes its argument the default, a successful
\* Register sets the default only when none is set, and no other call and no
\* failed call changes it.
C14_DefaultFollowsCalls ==
    /\ ~IsValid(defaultEncoding)
    /\ [][/\ last'.op = "SetDefault" =>
                defaultEncoding' = IF last'.ok THEN last'.encoding ELSE defaultEncoding
          /\ last'.op = "Register" =>
                defaultEncoding' = IF ~IsValid(defaultEncoding) /\ last'.ok
                                   THEN last'.encoding ELSE defaultEncoding
          /\ last'.op \notin {"SetDefault", "Register"} =>
                defaultEncoding' = defaultEncoding]_vars

\* Register has succeeded for an encoding other than the default, and the
\* default, set before, is as it was
C14_Witness ==
    /\ last.op = "Register"
    /\ last.ok
    /\ last.encoding = BCRYPT
    /\ defaultEncoding = SCRYPT

\* C15: Register returns the invalid-encoding error when the encoding is
\* out of range and the empty-id error when the adapter's id has length 0,
\* and in both cases leaves every slot and the default as they were: a
\* failed first registration sets no default.
C15_RegisterRefusals ==
    [][last'.op = "Register" =>
        /\ ~IsValid(last'.encoding) => last'.err = "ErrInvalidEncoding"
        /\ (IsValid(last'.encoding) /\ Len(last'.id) = 0) => last'.err = "empty id"
        /\ (~IsValid(last'.encoding) \/ Len(last'.id) = 0) =>
                /\ ~last'.ok
                /\ encoders' = encoders
                /\ defaultEncoding' = defaultEncoding]_vars

\* Register has refused, as the first registration, an adapter with an empty
\* id for a known encoding: no default is set and every slot is empty
C15_Witness ==
    /\ last.op = "Register"
    /\ IsValid(last.encoding)
    /\ last.err = "empty id"
    /\ ~IsValid(defaultEncoding)
    /\ \A i \in 0..(maxEncoding - 1) : IsNil(encoders[i])

\* C16: SetDefault(id) returns the invalid-encoding error when id is out of
\* range and the unregistered-encoding error when its slot is empty, and
\* leaves the default as it was; when it succeeds the default is id.  In no
\* case is a slot changed.
C16_SetDefaultOutcomes ==
    [][last'.op = "SetDefault" =>
        /\ encoders' = encoders
        /\ IF ~IsValid(last'.encoding)
           THEN last'.err = "ErrInvalidEncoding" /\ defaultEncoding' = defaultEncoding
           ELSE IF IsNil(encoders[last'.encoding])
           THEN last'.err = "ErrUnregisteredEncoding" /\ defaultEncoding' = defaultEncoding
           ELSE last'.ok /\ last'.err = "nil" /\ defaultEncoding' = last'.encoding]_vars

\* SetDefault has refused a known encoding whose slot is empty, and the
\* default is another encoding, as before
C16_Witness ==
    /\ last.op = "SetDefault"
    /\ last.err = "ErrUnregisteredEncoding"
    /\ IsNil(encoders[last.encoding])
    /\ IsValid(defaultEncoding)

\* C17: Create returns the no-encoders-registered error exactly when no
\* default is set; otherwise what it returns is made by the adapter in the
\* default slot, so that every password it returns begins with the
\* separator, the id of the default adapter and the separator.
C17_CreateByDefault ==
    last.op = "Create" =>
        /\ last.err = "No encoders registered" <=> ~IsValid(defaultEncoding)
        /\ IsValid(defaultEncoding) =>
            /\ ~IsNil(encoders[defaultEncoding])
            /\ last.encoding = defaultEncoding
            /\ \E read \in CreateReads :
                    [encoded |-> last.encoded, err |-> last.err]
                        = EncCreate(encoders[defaultEncoding].enc, last.plain, read)
            /\ last.ok => IsPrefix(<<separator>> \o encoders[defaultEncoding].id
                                        \o <<separator>>, last.encoded)

\* Create after SetDefault chose the higher of two occupied slots: the
\* password begins with that slot's id
C17_Witness ==
    /\ last.op = "Create"
    /\ last.ok
    /\ defaultEncoding = SCRYPT
    /\ ~IsNil(encoders[BCRYPT])
    /\ encoders[BCRYPT].id # encoders[SCRYPT].id
    /\ IsPrefix(<<separator>> \o encoders[SCRYPT].id \o <<separator>>, last.encoded)

\* C18: there is no unregister transition.  A slot that is occupied is
\* occupied in every later state, whatever calls of Register, SetDefault,
\* Create, Verify and IsCurrent follow: a registration over it puts another
\* adapter in it and nothing empties it.
C18_SlotsStayOccupied ==
    [][\A i \in 0..(maxEncoding - 1) :
            ~IsNil(encoders[i]) => ~IsNil(encoders'[i])]_vars

\* a refused registration over an occupied slot has left the slot occupied
C18_Witness ==
    /\ last.op = "Register"
    /\ ~last.ok
    /\ IsValid(last.encoding)
    /\ ~IsNil(encoders[last.encoding])

-----------------------------------------------------------------------------
(* The configurations and what the claims say of them.                      *)

\* the numeric knobs of the configuration of a bridge encoder
Knobs(enc) ==
    IF enc.alg = "scrypt" THEN {"KeyLen", "SaltLen", "LgN", "R", "P"}
    ELSE {"KeyLen", "SaltLen", "Iterations"}

\* C19: SetConfig of scrypt and of pbkdf2 refuses every configuration that
\* has a numeric knob (key length, salt length, iterations, LgN, R, P) that
\* is not strictly positive, and leaves the registry as it was: no encoder
\* of the registry has a configuration with such a knob.
C19_KnobsPositive ==
    \A i \in 0..(maxEncoding - 1) :
        encoders[i].enc.type = "bridge" =>
            \A f \in Knobs(encoders[i].enc) : encoders[i].enc.config[f] > 0

\* C20: AtLeast compares field by field and is no total order.
\* c.AtLeast(d) is true exactly when every tracked field of c (scrypt: LgN,
\* R, P, KeyLen; pbkdf2: Iterations, KeyLen, SaltLen) is at least d's; it is
\* reflexive and transitive; and of two pbkdf2 configurations of which c has
\* more iterations and a shorter key than d, neither is at least the other.
C20_AtLeastPerField ==
    last.op = "AtLeast" =>
        /\ last.cd <=> \A f \in Tracked(BridgeNew(<<>>, last.alg, last.c)) :
                            last.c[f] >= last.d[f]
        /\ last.cc
        /\ (last.cd /\ last.de) => last.ce
        /\ (/\ last.alg = "pbkdf2"
            /\ last.c.Iterations > last.d.Iterations
            /\ last.c.KeyLen < last.d.KeyLen) => (~last.cd /\ ~last.dc)

\* two pbkdf2 configurations, c with more iterations and a shorter key than
\* d, have been compared and neither is at least the other
C20_Witness ==
    /\ last.op = "AtLeast"
    /\ last.alg = "pbkdf2"
    /\ last.c.Iterations > last.d.Iterations
    /\ last.c.KeyLen < last.d.KeyLen
    /\ ~last.cd
    /\ ~last.dc

\* the fields that Params writes, by algorithm
Written(alg) ==
    IF alg = "scrypt" THEN {"KeyLen", "LgN", "R", "P"} ELSE {"KeyLen", "Iterations", "Hash"}

\* C21: Params and SetParams are inverses.  For every configuration c that
\* SetConfig accepts, SetParams(c.Params()) on a fresh parameter set
\* succeeds and restores exactly the fields that Params writes (scrypt:
\* KeyLen, LgN, R, P; pbkdf2: KeyLen, Iterations, Hash), so that Params() of
\* the result is c.Params().
C21_ParamsRoundTrip ==
    last.op = "SetParams" =>
        /\ last.err = "nil"
        /\ \A f \in Written(last.alg) : last.got[f] = last.c[f]
        /\ \A f \in DOMAIN last.got \ Written(last.alg) : last.got[f] = last.fresh[f]
        /\ ImpParams(last.alg, last.got) = last.text

\* the parameters of a pbkdf2 configuration with a negative number and
\* another hash than the fresh set's have been read back
C21_Witness ==
    /\ last.op = "SetParams"
    /\ last.alg = "pbkdf2"
    /\ last.c.KeyLen < 0
    /\ last.c.Iterations > 0
    /\ last.c.Hash # last.fresh.Hash
    /\ last.got.Hash = last.c.Hash
    /\ last.got.KeyLen = last.c.KeyLen

AllHex(field) == \A i \in 1..Len(field) : fromHexChar(field[i]) >= 0

\* C26: the default decoder treats a field as hex exactly when every
\* character of it is of the hex alphabet, and as base64 otherwise: a field
\* with a character outside the hex alphabet, "=" included, is decoded as
\* base64.
C26_HexExactlyWhenAllHex ==
    last.op = "decode" =>
        [dst |-> last.dst, err |-> last.err]
            = IF AllHex(last.field) THEN HexDecode(last.field) ELSE B64Decode(last.field)

\* Parse, by a Passwd made for r's name, has read what Bytes wrote of r in hex
HexParsedBack ==
    last.op = "Parse" /\ last.encoded = BytesWith(last.r, TRUE) /\ last.name = last.r.Name

\* C27: the alternate hex transform round-trips.  With Encoder = EncodeHex
\* and the default Decoder, Parse(Bytes(r)) succeeds and returns a salt and
\* a key equal to r's, for every r whose name and params hold no separator.
C27_HexRoundTrip ==
    (/\ HexParsedBack
     /\ separator \notin Range(last.r.Name)
     /\ separator \notin Range(last.r.Params))
        => /\ last.err = "nil"
           /\ last.parsed.Salt = last.r.Salt
           /\ last.parsed.Key = last.r.Key

\* a salt beginning with the byte 0x0a and a key of two bytes or more have
\* been read back from their hex text
C27_Witness ==
    /\ HexParsedBack
    /\ separator \notin Range(last.r.Params)
    /\ Len(last.r.Salt) > 0
    /\ last.r.Salt[1] = 10
    /\ Len(last.r.Key) >= 2
    /\ last.err = "nil"
    /\ last.parsed.Salt = last.r.Salt
    /\ last.parsed.Key = last.r.Key

\* the registry with the SaltLen and the Hash of the live pbkdf2
\* configuration replaced
WithPbkdf2(saltLen, hash) ==
    [encoders EXCEPT ![PBKDF2].enc.config.SaltLen = saltLen,
                     ![PBKDF2].enc.config.Hash = hash]

-----------------------------------------------------------------------------
(* The goroutines: what the claims say of calls that overlap.               *)

ReadOps == {"Create", "Verify", "IsCurrent"}

\* C23: Create, Verify and IsCurrent are read-only on shared state: no step
\* of theirs changes a slot, the default or the configuration of a
\* registered adapter, also when Parse or SetParams fails part-way, because
\* every call works on its own fresh copy of the parameter set.
C23_ReadersWriteNothing ==
    [][\A g \in Goroutines :
          (calls'[g].pc # calls[g].pc /\ calls'[g].op \in ReadOps)
              => encoders' = encoders /\ defaultEncoding' = defaultEncoding]_vars

\* IsCurrent has returned the error of a SetParams that had read KeyLen = 9
\* before it failed, and the adapter it used is in its slot with the KeyLen
\* it had
C23_Witness ==
    \E g \in Goroutines :
        /\ calls[g].op = "IsCurrent"
        /\ calls[g].pc = "done"
        /\ calls[g].encoded = CutRecord
        /\ calls[g].err = "fmt.Sscanf"
        /\ calls[g].encoder = ScryptHigh
        /\ encoders[calls[g].encoding].enc = ScryptHigh

\* C24: the replacement of an adapter is atomic for readers: a Create,
\* Verify or IsCurrent that overlaps a SetConfig or Register runs against
\* one whole adapter registered for the slot, the old one or the new one,
\* and never against a slot that is partially updated.
C24_OneWholeAdapter ==
    \A g \in Goroutines :
        (/\ calls[g].op \in ReadOps
         /\ calls[g].pc \in {"encoder", "default?", "done", "panic"}
         /\ calls[g].encoding # maxEncoding)
            => calls[g].encoder \in
                   {r.encoder : r \in {x \in Registrations : x.encoding = calls[g].encoding}}

\* the Register calls that have assigned the default
AssignedDefault == {g \in Goroutines : calls[g].op = "Register" /\ calls[g].ok}

\* C25: the changes of the registration are serialized: however two or more
\* Register calls on a registry with no default interleave, one of them
\* only, the first, assigns the default, and no other Register call assigns
\* it afterwards.
C25_DefaultAssignedOnce ==
    imports = {} => Cardinality(AssignedDefault) <= 1

\* C28: an IsCurrent call that overlaps SetDefault and SetConfig calls
\* returns what IsCurrent answers in one at least of the registries there
\* have been between its beginning and its return; it does not return true
\* when in none of them the password was current for its adapter and of the
\* default algorithm.
C28_AnswerOfSomeRegistry ==
    \A g \in Goroutines :
        (calls[g].op = "IsCurrent" /\ calls[g].pc = "done")
            => [isCurrent |-> calls[g].ok, err |-> calls[g].err] \in calls[g].could

=============================================================================
